---- MODULE Spec2Model ----
(***************************************************************************)
(* The listing viewers (src/src/App.jsx, src/unnamed/part_001 and the      *)
(* first component of src/unnamed/part_000) and the content planner (the   *)
(* second component of src/unnamed/part_000) as one state machine.         *)
(*                                                                         *)
(* JavaScript values are records [t, n, s]: t is the kind of the value, n  *)
(* the value of a finite number and s the characters of a string (a        *)
(* sequence of one-character strings) or the elements of an array.         *)
(* Numbers are fixed-point with one decimal place: n counts tenths, so     *)
(* that 18.5 is Num(185) and 20 is Num(200).                               *)
(***************************************************************************)
EXTENDS Integers, Sequences, FiniteSets, TLC

VARIABLES
  variant,      \* which of the three viewer files runs: "jsx", "mock" or "ts"
  engine,       \* how the host's Array.prototype.sort inserts: "binary" or "linear"
  mode,         \* App.jsx: 'search' | 'url'
  useMock,      \* part_001: the "Use mock data" switch
  threshold,    \* useState(20)
  requireArea,  \* useState(true)
  sort,         \* useState("uv")
  loading,      \* useState(false)
  error,        \* useState(null): Null or a string
  listings,     \* useState([])
  calls,        \* the invocations of fetchListings that have not settled, oldest first
  uncaught,     \* a promise returned by fetchListings was rejected
  crashed,      \* a render threw: React unmounted the tree
  fn,           \* the helper function that is called on its own, or "none"
  args,         \* the arguments of that call
  returned,     \* what the calls of fn made so far have returned, oldest first
  page,         \* the content planner's page: "closed", "mounted" or "crashed" (a render threw)
  items,        \* useLocalStorageArray: useState(...), the item collection
  storage,      \* localStorage's entry under STORAGE_KEY: Null or a string
  saved,        \* the array whose text the planner stored last, or Null
  editingItem,  \* useState(null)
  toast,        \* useState("")
  reads,        \* the texts of the files a FileReader is still reading, oldest first
  nextId,       \* how many ids uid() has made
  clock         \* the time nowISO() reads

\* the state of a viewer
viewer == <<variant, engine, mode, useMock, threshold, requireArea, sort,
            loading, error, listings, calls, uncaught, crashed>>

\* the state of the calls of a helper function on its own
bench == <<fn, args, returned>>

\* the state of the content planner
planner == <<page, items, storage, saved, editingItem, toast, reads, nextId, clock>>

\* what no handler of a viewer touches
others == <<bench, planner>>

vars == <<viewer, bench, planner>>

----------------------------------------------------------------------------
(* Values *)

Val(t, n, s) == [t |-> t, n |-> n, s |-> s]
Undefined == Val("undefined", 0, <<>>)
Null == Val("null", 0, <<>>)
NaN == Val("NaN", 0, <<>>)
Infinity == Val("Infinity", 0, <<>>)
NegInfinity == Val("-Infinity", 0, <<>>)
Num(n) == Val("number", n, <<>>)
Str(s) == Val("string", 0, s)
Arr(a) == Val("array", 0, a)

\* n whole units in tenths
Tenths(n) == 10 * n

\* typeof v === "number"
IsNumberType(v) == v.t \in {"number", "NaN", "Infinity", "-Infinity"}
\* Number.isFinite(v): no coercion, so only a finite number passes
IsFinite(v) == v.t = "number"
\* the left operand of ?? is kept unless it is null or undefined
Coalesce(v, d) == IF v.t \in {"null", "undefined"} THEN d ELSE v
\* Array.isArray(v)
IsArray(v) == v.t = "array"
\* ToBoolean(v)
Truthy(v) ==
  CASE v.t \in {"undefined", "null", "NaN", "false"} -> FALSE
    [] v.t = "number" -> v.n # 0
    [] v.t = "string" -> v.s # <<>>
    [] OTHER -> TRUE

----------------------------------------------------------------------------
(* Strings and the conversion of a string to a number *)

WhiteSpace == {" ", "\t", "\n"}
Digits == {"0", "1", "2", "3", "4", "5", "6", "7", "8", "9"}

DigitVal(c) ==
  CASE c = "0" -> 0 [] c = "1" -> 1 [] c = "2" -> 2 [] c = "3" -> 3
    [] c = "4" -> 4 [] c = "5" -> 5 [] c = "6" -> 6 [] c = "7" -> 7
    [] c = "8" -> 8 [] c = "9" -> 9

AllDigits(s) == \A i \in 1..Len(s) : s[i] \in Digits

RECURSIVE DigitsVal(_)
DigitsVal(s) ==
  IF s = <<>> THEN 0
  ELSE 10 * DigitsVal(SubSeq(s, 1, Len(s) - 1)) + DigitVal(s[Len(s)])

\* s without the characters of the set cs: s.replace(/[cs]/g, "")
RECURSIVE Remove(_, _)
Remove(s, cs) ==
  IF s = <<>> THEN <<>>
  ELSE IF Head(s) \in cs THEN Remove(Tail(s), cs)
  ELSE <<Head(s)>> \o Remove(Tail(s), cs)

\* s without leading and trailing white space
RECURSIVE Trim(_)
Trim(s) ==
  IF s = <<>> THEN <<>>
  ELSE IF Head(s) \in WhiteSpace THEN Trim(Tail(s))
  ELSE IF s[Len(s)] \in WhiteSpace THEN Trim(SubSeq(s, 1, Len(s) - 1))
  ELSE s

HexDigits == Digits \cup {"a", "b", "c", "d", "e", "f"}

HexDigitVal(c) ==
  CASE c = "a" -> 10 [] c = "b" -> 11 [] c = "c" -> 12 [] c = "d" -> 13
    [] c = "e" -> 14 [] c = "f" -> 15 [] OTHER -> DigitVal(c)

RECURSIVE HexVal(_)
HexVal(s) ==
  IF s = <<>> THEN 0
  ELSE 16 * HexVal(SubSeq(s, 1, Len(s) - 1)) + HexDigitVal(s[Len(s)])

\* Number(s) for a string s: the empty string is 0; a decimal literal with an
\* optional sign is its value (kept to one decimal place); a hexadecimal
\* literal 0x... without a sign is its value; digits with an exponent
\* e<digits> are Infinity when the exponent is beyond that of the largest
\* double, 308; anything else is NaN.  Binary and octal literals, upper-case
\* hexadecimal digits, small exponents and "Infinity" are not in the
\* alphabet of the model's strings.
StringToNumber(s) ==
  LET t == Trim(s)
      signed == t # <<>> /\ t[1] \in {"-", "+"}
      body == IF signed THEN Tail(t) ELSE t
      sgn == IF signed /\ t[1] = "-" THEN -1 ELSE 1
      dots == {i \in 1..Len(body) : body[i] = "."}
      dot == IF dots = {} THEN Len(body) + 1
             ELSE CHOOSE i \in dots : \A j \in dots : i <= j
      ip == SubSeq(body, 1, dot - 1)
      fp == SubSeq(body, dot + 1, Len(body))
      hex == SubSeq(t, 3, Len(t))
      es == {i \in 1..Len(body) : body[i] = "e"}
      e == IF es = {} THEN Len(body) + 1 ELSE CHOOSE i \in es : \A j \in es : i <= j
      mantissa == SubSeq(body, 1, e - 1)
      exponent == SubSeq(body, e + 1, Len(body))
  IN IF t = <<>> THEN Num(0)
     ELSE IF /\ mantissa # <<>> /\ AllDigits(mantissa) /\ DigitsVal(mantissa) > 0
             /\ exponent # <<>> /\ AllDigits(exponent) /\ DigitsVal(exponent) > 308
     THEN (IF sgn = 1 THEN Infinity ELSE NegInfinity)
     ELSE IF Len(t) > 2 /\ t[1] = "0" /\ t[2] = "x" /\ \A i \in 1..Len(hex) : hex[i] \in HexDigits
     THEN Num(10 * HexVal(hex))
     ELSE IF AllDigits(ip) /\ AllDigits(fp) /\ (ip # <<>> \/ fp # <<>>)
     THEN Num(sgn * (10 * DigitsVal(ip) + (IF fp = <<>> THEN 0 ELSE DigitVal(fp[1]))))
     ELSE NaN

DigitChar(d) ==
  CASE d = 0 -> "0" [] d = 1 -> "1" [] d = 2 -> "2" [] d = 3 -> "3" [] d = 4 -> "4"
    [] d = 5 -> "5" [] d = 6 -> "6" [] d = 7 -> "7" [] d = 8 -> "8" [] d = 9 -> "9"

\* the decimal text of a natural number, as a template literal writes it
RECURSIVE NatText(_)
NatText(k) == IF k < 10 THEN <<DigitChar(k)>> ELSE NatText(k \div 10) \o <<DigitChar(k % 10)>>

\* the text of a number of the model (n tenths)
NumberText(n) ==
  (IF n < 0 THEN <<"-">> ELSE <<>>)
    \o NatText((IF n < 0 THEN -n ELSE n) \div 10)
    \o (IF n % 10 = 0 THEN <<>> ELSE <<".", DigitChar((IF n < 0 THEN -n ELSE n) % 10)>>)

RECURSIVE JoinText(_)
JoinText(parts) ==
  IF parts = <<>> THEN <<>>
  ELSE IF Len(parts) = 1 THEN parts[1]
  ELSE parts[1] \o <<",">> \o JoinText(Tail(parts))

\* String(v) for a value that is no array
ScalarText(v) ==
  CASE v.t = "string" -> v.s
    [] v.t = "number" -> NumberText(v.n)
    [] v.t = "true" -> <<"t", "r", "u", "e">>
    [] v.t = "false" -> <<"f", "a", "l", "s", "e">>
    [] v.t = "null" -> <<"n", "u", "l", "l">>
    [] v.t = "undefined" -> <<"u", "n", "d", "e", "f", "i", "n", "e", "d">>
    [] v.t = "NaN" -> <<"N", "a", "N">>
    [] v.t = "Infinity" -> <<"I", "n", "f", "i", "n", "i", "t", "y">>
    [] v.t = "-Infinity" -> <<"-", "I", "n", "f", "i", "n", "i", "t", "y">>
    [] v.t = "object" -> <<"[", "o", "b", "j", "e", "c", "t", " ", "O", "b", "j", "e", "c", "t", "]">>
    [] OTHER -> <<>>

\* String(v): an array is its elements joined by commas, a null or
\* undefined element counting as the empty string
StringOf(v) ==
  IF v.t = "array"
  THEN JoinText([i \in 1..Len(v.s) |->
                  IF v.s[i].t \in {"null", "undefined"} THEN <<>> ELSE ScalarText(v.s[i])])
  ELSE ScalarText(v)

\* ToNumber(v), as the subtraction and comparison operators apply it
ToNum(v) ==
  CASE IsNumberType(v) -> v
    [] v.t = "undefined" -> NaN
    [] v.t = "null" -> Num(0)
    [] v.t = "true" -> Num(Tenths(1))
    [] v.t = "false" -> Num(0)
    [] v.t = "string" -> StringToNumber(v.s)
    [] OTHER -> NaN

\* x < y for numbers
NumLess(x, y) ==
  CASE x.t = "NaN" \/ y.t = "NaN" -> FALSE
    [] x.t = "-Infinity" -> y.t # "-Infinity"
    [] x.t = "Infinity" -> FALSE
    [] y.t = "Infinity" -> TRUE
    [] y.t = "-Infinity" -> FALSE
    [] OTHER -> x.n < y.n

\* a >= b
GreaterEq(a, b) ==
  LET x == ToNum(a)
      y == ToNum(b)
  IN x.t # "NaN" /\ y.t # "NaN" /\ ~NumLess(x, y)

\* a > b
Greater(a, b) == NumLess(ToNum(b), ToNum(a))

\* a - b
Minus(a, b) ==
  LET x == ToNum(a)
      y == ToNum(b)
  IN CASE x.t = "NaN" \/ y.t = "NaN" -> NaN
       [] x.t = "number" /\ y.t = "number" -> Num(x.n - y.n)
       [] x.t = y.t -> NaN
       [] x.t = "Infinity" -> Infinity
       [] x.t = "-Infinity" -> NegInfinity
       [] y.t = "Infinity" -> NegInfinity
       [] OTHER -> Infinity

----------------------------------------------------------------------------
(* toNumber: src/src/App.jsx 7-13, src/unnamed/part_001 41-48 *)

Stripped == {"£", ","} \cup WhiteSpace

\* a faulty toNumber: a number is returned unchecked
toNumberUnchecked(v) ==
  IF v.t \in {"null", "undefined"} THEN NaN
  ELSE IF IsNumberType(v) THEN v
  ELSE LET s == Remove(StringOf(v), Stripped)
           n == StringToNumber(s)
       IN IF IsFinite(n) THEN n ELSE NaN

\* a faulty toNumber: null and undefined are returned as they are
toNumberNullThrough(v) ==
  IF v.t \in {"null", "undefined"} THEN v
  ELSE IF IsNumberType(v) THEN (IF IsFinite(v) THEN v ELSE NaN)
  ELSE LET s == Remove(StringOf(v), Stripped)
           n == StringToNumber(s)
       IN IF IsFinite(n) THEN n ELSE NaN

\* a faulty toNumber: a string with nothing left to parse gives the sentinel
toNumberBlankNaN(v) ==
  IF v.t \in {"null", "undefined"} THEN NaN
  ELSE IF IsNumberType(v) THEN (IF IsFinite(v) THEN v ELSE NaN)
  ELSE LET s == Remove(StringOf(v), Stripped)
           n == IF s = <<>> THEN NaN ELSE StringToNumber(s)
       IN IF IsFinite(n) THEN n ELSE NaN

toNumber(v) ==
  IF v.t \in {"null", "undefined"} THEN NaN
  ELSE IF IsNumberType(v) THEN (IF IsFinite(v) THEN v ELSE NaN)
  ELSE LET s == Remove(StringOf(v), Stripped)
           n == StringToNumber(s)
       IN IF IsFinite(n) THEN n ELSE NaN

----------------------------------------------------------------------------
(* Listing records.  Of the fields of a raw listing the model keeps the    *)
(* title, which tells two listings apart, and the six numeric-looking      *)
(* fields; source, address, beds and link are only rendered.               *)

Listing(title, uv, sqm, price, ppsm) ==
  [title |-> title, price |-> price, sqm |-> sqm, sqft |-> Undefined,
   pricePerSqm |-> ppsm, pricePerSqft |-> Undefined, undervaluePct |-> uv]

\* src/unnamed/part_001 71-76
MOCK_LISTINGS ==
  << Listing("3 Bed Detached House", Num(185), Num(Tenths(90)), Num(Tenths(350000)), Num(Tenths(3889))),
     Listing("2 Bed Flat", Num(240), Num(Tenths(70)), Num(Tenths(250000)), Num(Tenths(3571))),
     Listing("4 Bed Semi-Detached", Num(123), Num(Tenths(150)), Num(Tenths(585000)), Num(Tenths(3900))),
     Listing("Studio", Num(322), Null, Num(Tenths(165000)), Null) >>

\* one record of the normalized collection: {...l, priceN: toNumber(l.price), ...}
normalizeOne(l) ==
  [title |-> l.title, price |-> l.price, sqm |-> l.sqm, sqft |-> l.sqft,
   pricePerSqm |-> l.pricePerSqm, pricePerSqft |-> l.pricePerSqft,
   undervaluePct |-> l.undervaluePct,
   priceN |-> toNumber(l.price), sqmN |-> toNumber(l.sqm), sqftN |-> toNumber(l.sqft),
   ppsmN |-> toNumber(l.pricePerSqm), ppsfN |-> toNumber(l.pricePerSqft),
   uvN |-> toNumber(l.undervaluePct)]

\* (listings || []).map(...) over the elements ls of the array
normalized(ls) == [i \in 1..Len(ls) |-> normalizeOne(ls[i])]

\* a faulty filter callback: the threshold itself is not enough
keepNormalizedAbove(x, thr, reqA) ==
  /\ IsFinite(x.uvN)
  /\ Greater(x.uvN, thr)
  /\ (~reqA \/ (IsFinite(x.sqmN) /\ Greater(x.sqmN, Num(0))))

\* a faulty filter callback: an area of zero is enough
keepNormalizedAreaNonNegative(x, thr, reqA) ==
  /\ IsFinite(x.uvN)
  /\ GreaterEq(x.uvN, thr)
  /\ (~reqA \/ (IsFinite(x.sqmN) /\ GreaterEq(x.sqmN, Num(0))))

\* the filter callback of App.jsx and part_001 on a normalized record
keepNormalized(x, thr, reqA) ==
  /\ IsFinite(x.uvN)
  /\ GreaterEq(x.uvN, thr)
  /\ (~reqA \/ (IsFinite(x.sqmN) /\ Greater(x.sqmN, Num(0))))

\* hasArea of part_000
hasArea(x) == IsFinite(x.sqm) /\ Greater(Coalesce(x.sqm, Num(0)), Num(0))

\* the filter callback of part_000 on a raw record
keepRaw(x, thr, reqA) ==
  /\ IsFinite(x.undervaluePct)
  /\ GreaterEq(Coalesce(x.undervaluePct, Num(Tenths(-999))), thr)
  /\ (~reqA \/ hasArea(x))

\* a faulty sort callback: 'uv' ascending
compareNormalizedAscending(a, b, key) ==
  CASE key = "uv" -> Minus(Coalesce(a.uvN, Num(Tenths(-999))), Coalesce(b.uvN, Num(Tenths(-999))))
    [] key = "price" -> Minus(Coalesce(a.priceN, Infinity), Coalesce(b.priceN, Infinity))
    [] key = "sqm" -> Minus(Coalesce(a.ppsmN, Infinity), Coalesce(b.ppsmN, Infinity))
    [] OTHER -> Num(0)

\* a faulty sort callback: it never answers 0, equal keys count as a before b
compareNormalizedNoTies(a, b, key) ==
  LET d == CASE key = "uv" -> Minus(Coalesce(b.uvN, Num(Tenths(-999))), Coalesce(a.uvN, Num(Tenths(-999))))
             [] key = "price" -> Minus(Coalesce(a.priceN, Infinity), Coalesce(b.priceN, Infinity))
             [] key = "sqm" -> Minus(Coalesce(a.ppsmN, Infinity), Coalesce(b.ppsmN, Infinity))
             [] OTHER -> Num(0)
  IN IF NumLess(Num(0), d) THEN Num(10) ELSE Num(-10)

\* the sort callback of App.jsx and part_001
compareNormalized(a, b, key) ==
  CASE key = "uv" -> Minus(Coalesce(b.uvN, Num(Tenths(-999))), Coalesce(a.uvN, Num(Tenths(-999))))
    [] key = "price" -> Minus(Coalesce(a.priceN, Infinity), Coalesce(b.priceN, Infinity))
    [] key = "sqm" -> Minus(Coalesce(a.ppsmN, Infinity), Coalesce(b.ppsmN, Infinity))
    [] OTHER -> Num(0)

\* the sort callback of part_000
compareRaw(a, b, key) ==
  CASE key = "uv" -> Minus(Coalesce(b.undervaluePct, Num(Tenths(-999))),
                           Coalesce(a.undervaluePct, Num(Tenths(-999))))
    [] key = "price" -> Minus(Coalesce(a.price, Infinity), Coalesce(b.price, Infinity))
    [] key = "sqm" -> Minus(Coalesce(a.pricePerSqm, Infinity), Coalesce(b.pricePerSqm, Infinity))
    [] OTHER -> Num(0)

\* What Array.prototype.sort makes of the callback's result for (a, b): its
\* sign, a NaN counting as +0.
Order(v, key, a, b) ==
  LET r == IF v = "ts" THEN compareRaw(a, b, key) ELSE compareNormalized(a, b, key)
  IN CASE r.t \in {"NaN"} -> 0
       [] r.t = "Infinity" -> 1
       [] r.t = "-Infinity" -> -1
       [] r.n < 0 -> -1
       [] r.n > 0 -> 1
       [] OTHER -> 0

----------------------------------------------------------------------------
(* Array.prototype.sort on a short array.  The language fixes the result   *)
(* (the stable order) only for a consistent callback; for the others the   *)
(* result is the host's.  Two hosts are modelled: one that extends an      *)
(* initial run and inserts the rest by binary search, one that inserts     *)
(* each element by a linear scan from the right.                           *)

InsertAt(arr, pos, x) == SubSeq(arr, 1, pos - 1) \o <<x>> \o SubSeq(arr, pos, Len(arr))

Reverse(arr) == [i \in 1..Len(arr) |-> arr[Len(arr) + 1 - i]]

\* the end of the run that starts at arr[1]; desc: the run is strictly descending
RECURSIVE RunEnd(_, _, _, _, _)
RunEnd(v, key, arr, desc, idx) ==
  IF idx > Len(arr) THEN Len(arr)
  ELSE LET o == Order(v, key, arr[idx], arr[idx - 1])
       IN IF (desc /\ o >= 0) \/ (~desc /\ o < 0) THEN idx - 1
          ELSE RunEnd(v, key, arr, desc, idx + 1)

\* where binary search puts x in arr[left .. right-1]: after its equals
RECURSIVE BinaryPos(_, _, _, _, _, _)
BinaryPos(v, key, arr, x, left, right) ==
  IF left >= right THEN left
  ELSE LET mid == left + ((right - left) \div 2)
       IN IF Order(v, key, x, arr[mid]) < 0
          THEN BinaryPos(v, key, arr, x, left, mid)
          ELSE BinaryPos(v, key, arr, x, mid + 1, right)

\* where a scan from the right puts x in arr[1 .. j]: after the first element
\* that is not greater
RECURSIVE LinearPos(_, _, _, _, _)
LinearPos(v, key, arr, x, j) ==
  IF j = 0 THEN 1
  ELSE IF Order(v, key, arr[j], x) <= 0 THEN j + 1
  ELSE LinearPos(v, key, arr, x, j - 1)

\* the sorted prefix `done` with the elements of `rest` inserted one by one
RECURSIVE InsertAll(_, _, _, _, _)
InsertAll(v, key, eng, done, rest) ==
  IF rest = <<>> THEN done
  ELSE LET x == Head(rest)
           pos == IF eng = "binary"
                  THEN BinaryPos(v, key, done, x, 1, Len(done) + 1)
                  ELSE LinearPos(v, key, done, x, Len(done))
       IN InsertAll(v, key, eng, InsertAt(done, pos, x), Tail(rest))

\* arr.sort(callback)
SortArray(v, key, eng, arr) ==
  IF Len(arr) < 2 THEN arr
  ELSE IF eng = "binary"
  THEN LET desc == Order(v, key, arr[2], arr[1]) < 0
           n == RunEnd(v, key, arr, desc, 3)
           run == IF desc THEN Reverse(SubSeq(arr, 1, n)) ELSE SubSeq(arr, 1, n)
       IN InsertAll(v, key, eng, run, SubSeq(arr, n + 1, Len(arr)))
  ELSE InsertAll(v, key, eng, <<arr[1]>>, Tail(arr))

----------------------------------------------------------------------------
(* The pipeline: normalized and filtered (useMemo) *)

KeepSeq(v, xs, thr, reqA) ==
  LET keep(x) == IF v = "ts" THEN keepRaw(x, thr, reqA) ELSE keepNormalized(x, thr, reqA)
  IN SelectSeq(xs, keep)

\* the threshold the filter callback compares with: thr in App.jsx and
\* part_001, the state itself in part_000
thresholdUsed(v, thr0) ==
  IF v = "ts" THEN thr0 ELSE (IF IsFinite(thr0) THEN thr0 ELSE Num(0))

\* filtered, for the elements ls of the listings array
filteredOf(v, eng, ls, thr0, reqA0, key) ==
  LET thr == thresholdUsed(v, thr0)
      reqA == reqA0
      xs == IF v = "ts" THEN ls ELSE normalized(ls)
  IN SortArray(v, key, eng, KeepSeq(v, xs, thr, reqA))

----------------------------------------------------------------------------
(* Inputs *)

Variants == {"jsx", "mock", "ts"}
Engines == {"binary", "linear"}
SortKeys == {"uv", "price", "sqm"}

\* the longest listing collection of PipeInit
MaxLen == 4

\* Raw listings as a backend may send them: numbers, currency-formatted or
\* non-numeric strings, null and missing fields.
Pool ==
  { Listing("A", Num(Tenths(25)), Num(Tenths(80)), Num(Tenths(2)), Num(Tenths(3))),
    Listing("B", Num(Tenths(40)), Null, Str(<<"£", "3">>), Null),
    Listing("C", Num(Tenths(25)), Str(<<"8", "0">>), Undefined, Num(Tenths(3))),
    Listing("D", Str(<<"3", "0">>), Num(0), Num(Tenths(1)), Str(<<"n", "/", "a">>)),
    Listing("E", Num(Tenths(10)), Num(Tenths(60)), Num(Tenths(1)), Num(Tenths(2))),
    Listing("F", Str(<<"n", "/", "a">>), Num(Tenths(50)), Num(Tenths(5)), Num(Tenths(1))) }

\* the collections of at most n distinct listings of Pool
ListingSeqs(n) ==
  UNION { {q \in [1..k -> Pool] : \A i, j \in 1..k : q[i] = q[j] => i = j} : k \in 0..n }

\* seven listings that pass the default filter, with the prices
\* undefined, "n/a", 2, 1, undefined, 1, 1
TieProbe ==
  << Listing("G", Num(Tenths(25)), Num(Tenths(80)), Undefined, Num(Tenths(3))),
     Listing("H", Num(Tenths(25)), Num(Tenths(80)), Str(<<"n", "/", "a">>), Num(Tenths(3))),
     Listing("I", Num(Tenths(25)), Num(Tenths(80)), Num(Tenths(2)), Num(Tenths(3))),
     Listing("J", Num(Tenths(25)), Num(Tenths(80)), Num(Tenths(1)), Num(Tenths(3))),
     Listing("K", Num(Tenths(25)), Num(Tenths(80)), Undefined, Num(Tenths(3))),
     Listing("L", Num(Tenths(25)), Num(Tenths(80)), Num(Tenths(1)), Num(Tenths(3))),
     Listing("M", Num(Tenths(25)), Num(Tenths(80)), Num(Tenths(1)), Num(Tenths(3))) >>

\* two listings with raw fields that are blank texts, a hexadecimal literal
\* and a boolean
BlankProbe ==
  << Listing("N", Str(<<>>), Str(<<" ">>), Str(<<"£">>), Str(<<",">>)),
     Listing("O", Num(Tenths(30)), Num(Tenths(50)), Str(<<"0", "x", "1", "0">>), Val("true", 0, <<>>)) >>

\* what the value of the threshold input, a number input, can hold: "",
\* "25", "-5", and "1e400", which is a valid floating-point number that a
\* host following the HTML standard's value sanitization leaves in place
ThresholdInputs == { <<>>, <<"2", "5">>, <<"-", "5">>, <<"1", "e", "4", "0", "0">> }

----------------------------------------------------------------------------
(* The derived values of a render *)

\* listings || []
listingsOrEmpty == IF Truthy(listings) THEN listings ELSE Arr(<<>>)

\* the useMemo value `filtered` of the current state
filtered == filteredOf(variant, engine, listingsOrEmpty.s, threshold, requireArea, sort)

----------------------------------------------------------------------------
(* The filter controls *)

\* Math.max(0, x)
MaxZero(x) == IF x.t = "NaN" THEN NaN ELSE IF NumLess(x, Num(0)) THEN Num(0) ELSE x

\* the onChange handler of the threshold input, e.target.value = text
SetThreshold(text) ==
  /\ ~crashed
  /\ threshold' =
       IF variant = "ts"
       THEN MaxZero(IF text = <<>> THEN Num(0) ELSE StringToNumber(text))
       ELSE (IF IsFinite(StringToNumber(text)) THEN StringToNumber(text) ELSE Num(0))
  /\ UNCHANGED <<others, variant, engine, mode, useMock, requireArea, sort, loading, error,
                 listings, calls, uncaught, crashed>>

\* the onChange handler of the "Require area" checkbox
SetRequireArea(checked) ==
  /\ ~crashed
  /\ requireArea' = checked
  /\ UNCHANGED <<others, variant, engine, mode, useMock, threshold, sort, loading, error,
                 listings, calls, uncaught, crashed>>

\* the onChange handler of the sort select
SetSort(key) ==
  /\ ~crashed
  /\ sort' = key
  /\ UNCHANGED <<others, variant, engine, mode, useMock, threshold, requireArea, loading, error,
                 listings, calls, uncaught, crashed>>

----------------------------------------------------------------------------
(* The state after construction *)

Defaults ==
  /\ variant \in Variants
  /\ engine \in Engines
  /\ mode = "search"
  /\ useMock = TRUE
  /\ threshold = Num(Tenths(20))
  /\ requireArea = TRUE
  /\ sort = "uv"
  /\ loading = FALSE
  /\ error = Null
  /\ calls = <<>>
  /\ uncaught = FALSE
  /\ crashed = FALSE

\* no helper function is called on its own
NoBench ==
  /\ fn = "none"
  /\ args = <<>>
  /\ returned = <<>>

\* the content planner is not open
NoPlanner ==
  /\ page = "closed"
  /\ items = Arr(<<>>)
  /\ storage = Null
  /\ saved = Null
  /\ editingItem = Null
  /\ toast = <<>>
  /\ reads = <<>>
  /\ nextId = 0
  /\ clock = 0

Init == Defaults /\ NoBench /\ NoPlanner /\ listings = Arr(<<>>)

\* The pipeline on every collection of at most MaxLen listings, on TieProbe
\* and on BlankProbe: the state a successful fetch of that collection leaves.
PipeInit ==
  /\ Defaults /\ NoBench /\ NoPlanner
  /\ \E q \in ListingSeqs(MaxLen) \cup {TieProbe, BlankProbe} : listings = Arr(q)

PipeNext ==
  \/ \E text \in ThresholdInputs : SetThreshold(text)
  \/ \E checked \in BOOLEAN : SetRequireArea(checked)
  \/ \E key \in SortKeys : SetSort(key)

SpecPipe == PipeInit /\ [][PipeNext]_vars

----------------------------------------------------------------------------
(* The filter stage *)

\* the elements of the normalized collection, in order
normalizedNow == normalized(listingsOrEmpty.s)

\* x has a finite undervalue-percent that is at least the threshold
UvAtLeastThreshold(x) == x.uvN.t = "number" /\ x.uvN.n >= threshold.n

\* x has a finite, strictly positive area
AreaPositive(x) == x.sqmN.t = "number" /\ x.sqmN.n > 0

\* the titles of the records xs, in order
Titles(xs) == [i \in 1..Len(xs) |-> xs[i].title]

\* the indices of xs whose element is x
Occurrences(xs, x) == {j \in 1..Len(xs) : xs[j] = x}

\* C1: with require-area off, the filter output of App.jsx and part_001 holds
\* exactly the normalized listings whose uvN is finite and >= threshold:
\* every output element satisfies the condition, every element of the
\* normalized collection that satisfies it is in the output, once.
C1_FilterKeepsExactlyUndervalued ==
  (variant \in {"jsx", "mock"} /\ ~requireArea /\ threshold.t = "number") =>
    LET out == filtered
        norm == normalizedNow
    IN /\ \A j \in 1..Len(out) : UvAtLeastThreshold(out[j]) /\ Occurrences(norm, out[j]) # {}
       /\ \A i \in 1..Len(norm) :
            UvAtLeastThreshold(norm[i]) => Cardinality(Occurrences(out, norm[i])) = 1
       /\ Len(out) = Cardinality({i \in 1..Len(norm) : UvAtLeastThreshold(norm[i])})

\* a state where C1's filter has kept a listing exactly at the threshold and one
\* above it, and dropped one below it and one whose uvN is not finite
C1_Witness ==
  /\ variant = "jsx" /\ ~requireArea
  /\ \E j \in 1..Len(filtered) : filtered[j].uvN.n = threshold.n
  /\ \E j \in 1..Len(filtered) : filtered[j].uvN.n > threshold.n
  /\ \E i \in 1..Len(normalizedNow) : normalizedNow[i].uvN.t = "number" /\ normalizedNow[i].uvN.n < threshold.n
  /\ \E i \in 1..Len(normalizedNow) : normalizedNow[i].uvN.t = "NaN"
  /\ Len(filtered) < Len(normalizedNow)

\* C2: with require-area on, every output element of App.jsx and part_001 has
\* a finite, strictly positive sqmN, the output is exactly the listings with a
\* finite uvN >= threshold and such an area, and for the listings with uv/sqm
\* (25,80), (40,null), (10,60) at threshold 20 the output is the first alone.
C2_RequireAreaNeedsPositiveArea ==
  (variant \in {"jsx", "mock"} /\ requireArea /\ threshold.t = "number") =>
    LET out == filtered
        norm == normalizedNow
    IN /\ \A j \in 1..Len(out) : AreaPositive(out[j]) /\ UvAtLeastThreshold(out[j])
       /\ \A i \in 1..Len(norm) :
            (Occurrences(out, norm[i]) # {})
              <=> (UvAtLeastThreshold(norm[i]) /\ AreaPositive(norm[i]))
       /\ (Titles(listingsOrEmpty.s) = <<"A", "B", "E">> /\ threshold = Num(200))
            => Titles(out) = <<"A">>

\* the scenario of C2 in part_001: the listing with a null area and the one
\* below the threshold are dropped, the first is kept
C2_Witness ==
  /\ variant = "mock" /\ requireArea
  /\ Titles(listingsOrEmpty.s) = <<"A", "B", "E">>
  /\ threshold = Num(200)
  /\ Titles(filtered) = <<"A">>

----------------------------------------------------------------------------
(* The sort stage *)

\* the value the viewer sorts x by under `key`: the derived field in App.jsx
\* and part_001, the raw field in part_000
SortField(x, key) ==
  IF variant = "ts"
  THEN (CASE key = "uv" -> x.undervaluePct [] key = "price" -> x.price [] OTHER -> x.pricePerSqm)
  ELSE (CASE key = "uv" -> x.uvN [] key = "price" -> x.priceN [] OTHER -> x.ppsmN)

\* a <= b where a value that is no finite number stands for +infinity
LeqNonFiniteLast(a, b) == b.t # "number" \/ (a.t = "number" /\ a.n <= b.n)

\* a >= b where a value that is no finite number stands for -999
GeqNonFiniteAsMinus999(a, b) ==
  (IF a.t = "number" THEN a.n ELSE Tenths(-999)) >= (IF b.t = "number" THEN b.n ELSE Tenths(-999))

\* C3: with sort key 'price' or 'sqm' the output is non-decreasing in the sort
\* field, a non-finite value comparing as positive infinity, so that every
\* listing with a non-finite sort field comes after every listing with a
\* finite one.
C3_AscendingNonFiniteLast ==
  (sort \in {"price", "sqm"}) =>
    LET out == filtered
    IN \A i, j \in 1..Len(out) :
         i < j => LeqNonFiniteLast(SortField(out[i], sort), SortField(out[j], sort))

\* C4: with sort key 'uv' the output is non-increasing in undervalue-percent,
\* a non-finite value comparing as -999.
C4_UvDescending ==
  (sort = "uv") =>
    LET out == filtered
    IN \A i, j \in 1..Len(out) :
         i < j => GeqNonFiniteAsMinus999(SortField(out[i], "uv"), SortField(out[j], "uv"))

\* a state where the sort by 'uv' has moved a listing: the output has three
\* listings of two different undervalue-percents, and is not in input order
C4_Witness ==
  LET out == filtered
  IN /\ sort = "uv" /\ Len(out) >= 3
     /\ \E i, j \in 1..Len(out) : SortField(out[i], "uv").n > SortField(out[j], "uv").n
     /\ \E i, j \in 1..Len(out) : i # j /\ SortField(out[i], "uv").n = SortField(out[j], "uv").n
     /\ out # KeepSeq(variant, IF variant = "ts" THEN listingsOrEmpty.s ELSE normalizedNow,
                      threshold, requireArea)

\* the index in the listing collection of the listing with this title
InputIndex(title) == CHOOSE i \in 1..Len(listingsOrEmpty.s) : listingsOrEmpty.s[i].title = title

\* a and b tie under `key`: their sort fields are the same finite number, or
\* both are no finite number
Tie(a, b, key) ==
  LET x == SortField(a, key)
      y == SortField(b, key)
  IN IF x.t = "number" THEN y.t = "number" /\ x.n = y.n ELSE y.t # "number"

\* C5: the sort is stable: two listings of the output whose sort fields tie
\* are in the order they have in the listing collection.
C5_SortStable ==
  LET out == filtered
  IN \A i, j \in 1..Len(out) :
       (i < j /\ Tie(out[i], out[j], sort)) => InputIndex(out[i].title) < InputIndex(out[j].title)

\* C6: filter+sort is idempotent: the pipeline applied with the same
\* parameters to its own output gives that output again.
C6_PipelineIdempotent ==
  LET out == filtered
  IN filteredOf(variant, engine, out, threshold, requireArea, sort) = out

\* a state where the first pass of C6 dropped a listing and reordered the
\* rest, so that the second pass runs on a collection the first one changed
C6_Witness ==
  LET out == filtered
  IN /\ Len(out) >= 3
     /\ Len(out) < Len(listingsOrEmpty.s)
     /\ \E i, j \in 1..Len(out) : i < j /\ InputIndex(out[i].title) > InputIndex(out[j].title)
     /\ \E i, j \in 1..Len(out) : i # j /\ Tie(out[i], out[j], sort)
     /\ filteredOf(variant, engine, out, threshold, requireArea, sort) = out

----------------------------------------------------------------------------
(* Text *)

\* needle occurs in hay: hay.includes(needle)
Includes(hay, needle) ==
  \E k \in 0..(Len(hay) - Len(needle)) : SubSeq(hay, k + 1, k + Len(needle)) = needle

\* s.slice(0, n)
Slice(s, n) == SubSeq(s, 1, IF Len(s) < n THEN Len(s) ELSE n)

\* s.replace(/\s+/g, " "): every run of white space becomes one space
\* two collapsed texts joined: a space ending the first and one starting the
\* second are one run
JoinCollapsed(left, right) ==
  IF left[Len(left)] = " " /\ right[1] = " " THEN left \o Tail(right) ELSE left \o right

RECURSIVE CollapseSpace(_)
CollapseSpace(s) ==
  IF Len(s) <= 1 THEN [i \in 1..Len(s) |-> IF s[i] \in WhiteSpace THEN " " ELSE s[i]]
  ELSE CHOOSE r \in { JoinCollapsed(left, right) :
                        left \in {CollapseSpace(SubSeq(s, 1, Len(s) \div 2))},
                        right \in {CollapseSpace(SubSeq(s, Len(s) \div 2 + 1, Len(s)))} } : TRUE

TextApiReturned == <<"A", "P", "I", " ", "r", "e", "t", "u", "r", "n", "e", "d", " ">>
TextWithNonJsonBody == <<" ", "w", "i", "t", "h", " ", "n", "o", "n", "-", "J", "S", "O", "N", " ", "b", "o", "d", "y", ":", " ">>
TextApiError == <<"A", "P", "I", " ", "e", "r", "r", "o", "r", " ">>
TextSomethingWentWrong == <<"S", "o", "m", "e", "t", "h", "i", "n", "g", " ", "w", "e", "n", "t", " ", "w", "r", "o", "n", "g">>
TextFailedToFetch == <<"F", "a", "i", "l", "e", "d", " ", "t", "o", " ", "f", "e", "t", "c", "h">>
TextApplicationJson == <<"a", "p", "p", "l", "i", "c", "a", "t", "i", "o", "n", "/", "j", "s", "o", "n">>

----------------------------------------------------------------------------
(* The backend's responses.  A body is its text and what JSON.parse makes   *)
(* of that text: a JSON value [t, error, listings], t the kind of the       *)
(* top-level value and error, listings its members of those names           *)
(* (Undefined when it has none), or a SyntaxError.                          *)

Json(t, err, ls) == [t |-> t, error |-> err, listings |-> ls]
JsonNull == Json("null", Undefined, Undefined)
JsonObject(err, ls) == Json("object", err, ls)
SyntaxError == Json("SyntaxError", Undefined, Undefined)

\* ToBoolean of a JSON value
JsonTruthy(d) == d.t \notin {"null", "false", "zero", "empty"}

Quoted(s) == <<"\"">> \o s \o <<"\"">>

\* "name":value, or nothing for a member that is undefined
MemberText(name, v) ==
  IF v.t = "undefined" THEN <<>>
  ELSE << Quoted(name) \o <<":">> \o
          (CASE v.t = "number" -> NumberText(v.n)
             [] v.t = "string" -> Quoted(v.s)
             [] v.t = "object" -> <<"{", "}">>
             [] OTHER -> <<"n", "u", "l", "l">>) >>

ListingText(l) ==
  <<"{">> \o JoinText(MemberText(<<"t", "i", "t", "l", "e">>, Str(<<l.title>>))
                      \o MemberText(<<"p", "r", "i", "c", "e">>, l.price)
                      \o MemberText(<<"s", "q", "m">>, l.sqm)
                      \o MemberText(<<"s", "q", "f", "t">>, l.sqft)
                      \o MemberText(<<"p", "r", "i", "c", "e", "P", "e", "r", "S", "q", "m">>, l.pricePerSqm)
                      \o MemberText(<<"p", "r", "i", "c", "e", "P", "e", "r", "S", "q", "f", "t">>, l.pricePerSqft)
                      \o MemberText(<<"u", "n", "d", "e", "r", "v", "a", "l", "u", "e", "P", "c", "t">>, l.undervaluePct)) \o <<"}">>

\* the text of a JSON value of the model
JsonText(d) ==
  IF d.t = "null" THEN <<"n", "u", "l", "l">>
  ELSE IF d.t = "false" THEN <<"f", "a", "l", "s", "e">>
  ELSE IF d.t = "zero" THEN <<"0">>
  ELSE IF d.t = "empty" THEN <<"\"", "\"">>
  ELSE <<"{">> \o
       JoinText(MemberText(<<"e", "r", "r", "o", "r">>, d.error)
                \o (IF d.listings.t = "undefined" THEN <<>>
                    ELSE IF d.listings.t = "array"
                    THEN << Quoted(<<"l", "i", "s", "t", "i", "n", "g", "s">>) \o <<":", "[">>
                            \o JoinText([i \in 1..Len(d.listings.s) |-> ListingText(d.listings.s[i])])
                            \o <<"]">> >>
                    ELSE MemberText(<<"l", "i", "s", "t", "i", "n", "g", "s">>, d.listings)))
       \o <<"}">>

JsonBody(d) == [text |-> JsonText(d), parsed |-> d]
TextBody(text) == [text |-> text, parsed |-> SyntaxError]

\* JSON.parse(text): the value, or a SyntaxError thrown
JSONParse(body) == body.parsed

Response(status, statusText, ct, body, bodyError) ==
  [status |-> status, statusText |-> statusText, contentType |-> ct, body |-> body,
   bodyError |-> bodyError]

\* resp.ok
Ok(resp) == resp.status \in 200..299

\* the longest listings array of a response
MaxRespLen == 2

\* the listings arrays of the responses
Payloads ==
  UNION { {q \in [1..k -> {l \in Pool : l.title \in {"A", "C", "E"}}] :
             \A i, j \in 1..k : q[i] = q[j] => i = j} : k \in 0..MaxRespLen }

\* a page of 51 characters with a run of white space, and a text of 200
HtmlPage == <<"<", "!", "d", "o", "c", "t", "y", "p", "e", " ", "h", "t", "m", "l", ">", "\n", "<", "h", "t", "m", "l", ">", "\n", " ", " ", "<", "b", "o", "d", "y", ">", "E", "r", "r", "o", "r", "<", "/", "b", "o", "d", "y", ">", "\n", "<", "/", "h", "t", "m", "l", ">">>
LongText == [i \in 1..200 |-> IF i % 8 \in {3, 4} THEN " " ELSE DigitChar(i % 10)]

JsonValues ==
  { JsonNull,
    Json("false", Undefined, Undefined),
    Json("zero", Undefined, Undefined),
    Json("empty", Undefined, Undefined),
    JsonObject(Undefined, Undefined),
    JsonObject(Str(<<"b", "o", "o", "m">>), Undefined),
    JsonObject(Str(<<>>), Undefined),
    JsonObject(Str(<<"b", "o", "o", "m">>), Arr(<<CHOOSE l \in Pool : l.title = "A">>)),
    JsonObject(Undefined, Str(<<"x">>)),
    JsonObject(Undefined, Null),
    JsonObject(Undefined, Val("object", 0, <<>>)),
    JsonObject(Undefined, Num(50)) }
  \cup { JsonObject(Undefined, Arr(q)) : q \in Payloads }

StatusTextOf(status) == IF status = 200 THEN <<"O", "K">> ELSE <<>>

ContentTypeJson == Str(<<"a", "p", "p", "l", "i", "c", "a", "t", "i", "o", "n", "/", "j", "s", "o", "n", ";", " ", "c", "h", "a", "r", "s", "e", "t", "=", "u", "t", "f", "-", "8">>)
ContentTypeHtml == Str(<<"t", "e", "x", "t", "/", "h", "t", "m", "l">>)

Responses ==
  { Response(st, StatusTextOf(st), ContentTypeJson, JsonBody(d), Null) :
      st \in {200, 500}, d \in JsonValues }
  \cup { Response(st, StatusTextOf(st), ContentTypeJson, TextBody(<<"{", "\"", "e", "r", "r">>), Null) : st \in {200, 500} }
  \cup { Response(st, StatusTextOf(st), ContentTypeHtml, TextBody(x), Null) :
           st \in {200, 500}, x \in {HtmlPage, LongText} }
  \cup { Response(200, <<"O", "K">>, ContentTypeHtml, JsonBody(JsonObject(Undefined, Arr(<<>>))), Null),
         Response(500, <<>>, Null, TextBody(HtmlPage), Null),
         Response(200, <<"O", "K">>, ContentTypeJson, JsonBody(JsonObject(Undefined, Arr(<<>>))),
                  Str(TextFailedToFetch)) }

\* the messages of the errors a rejected fetch carries
NetworkErrors == { TextFailedToFetch, <<>> }

----------------------------------------------------------------------------
(* fetchListings *)

\* the characters of the body that an error message quotes
SnippetLengthJsx == 180
SnippetLengthMock == 160
SnippetLength(v) == IF v = "mock" THEN SnippetLengthMock ELSE SnippetLengthJsx

\* text.slice(0, 180).replace(/\s+/g, " ")
snippet(v, text) == CollapseSpace(Slice(text, SnippetLength(v)))

\* a faulty parseMaybeJson: the content type is not looked at
parseMaybeJsonAnyType(body, contentType) ==
  IF JSONParse(body) = SyntaxError THEN JsonNull ELSE JSONParse(body)

\* parseMaybeJson(text, contentType): the parsed body when the content type
\* names JSON and the text parses, else null
parseMaybeJson(body, contentType) ==
  IF Truthy(contentType) /\ Includes(contentType.s, TextApplicationJson)
  THEN (IF JSONParse(body) = SyntaxError THEN JsonNull ELSE JSONParse(body))
  ELSE JsonNull

\* `API returned ${resp.status} ${resp.statusText} with non-JSON body: ${snippet}`
nonJsonMessage(v, resp) ==
  TextApiReturned \o NatText(resp.status) \o <<" ">> \o resp.statusText
    \o TextWithNonJsonBody \o snippet(v, resp.body.text)

\* a faulty message: the error member of the body is ignored
apiErrorMessageGeneric(data, resp) == TextApiError \o NatText(resp.status)

\* data.error || `API error ${resp.status}`
apiErrorMessage(data, resp) ==
  IF Truthy(data.error) THEN StringOf(data.error) ELSE TextApiError \o NatText(resp.status)

\* data?.error || "Failed to fetch"
apiErrorMessageTs(data, resp) ==
  IF Truthy(data.error) THEN StringOf(data.error) ELSE TextFailedToFetch

\* the message of the SyntaxError that resp.json() rejects with
TextUnexpectedToken == <<"U", "n", "e", "x", "p", "e", "c", "t", "e", "d", " ", "t", "o", "k", "e", "n">>

\* how the try block ends: it returns after setListings(ls), or throws
Returned(ls) == [threw |-> FALSE, message |-> Undefined, listings |-> ls]
Thrown(message) == [threw |-> TRUE, message |-> message, listings |-> Undefined]

\* a faulty try block: a body that is JSON but falsy counts as a body
\* without listings
readBodyFalsyAsEmpty(v, resp) ==
  LET ct == IF Truthy(resp.contentType) THEN resp.contentType ELSE Str(<<>>)
      data == parseMaybeJson(resp.body, ct)
  IN  IF ~JsonTruthy(data) /\ Includes(ct.s, TextApplicationJson)
         /\ resp.body.parsed # SyntaxError
      THEN Returned(Arr(<<>>))
      ELSE IF ~JsonTruthy(data) THEN Thrown(Str(nonJsonMessage(v, resp)))
      ELSE IF ~Ok(resp) THEN Thrown(Str(apiErrorMessage(data, resp)))
      ELSE Returned(IF IsArray(data.listings) THEN data.listings ELSE Arr(<<>>))

\* the try block from the response on, App.jsx and the mock-capable variant
readBody(v, resp) ==
  LET ct == IF Truthy(resp.contentType) THEN resp.contentType ELSE Str(<<>>)
      data == parseMaybeJson(resp.body, ct)
  IN  IF ~JsonTruthy(data) THEN Thrown(Str(nonJsonMessage(v, resp)))
      ELSE IF ~Ok(resp) THEN Thrown(Str(apiErrorMessage(data, resp)))
      ELSE Returned(IF IsArray(data.listings) THEN data.listings ELSE Arr(<<>>))

\* the try block from the response on, the TypeScript variant
readBodyTs(resp) ==
  LET data == JSONParse(resp.body)
  IN  IF data = SyntaxError THEN Thrown(Str(TextUnexpectedToken))
      ELSE IF ~Ok(resp) THEN Thrown(Str(apiErrorMessageTs(data, resp)))
      ELSE Returned(IF Truthy(data.listings) THEN data.listings ELSE Arr(<<>>))

\* await resp.text() / await resp.json(), and the rest of the try block
tryBody(v, resp) ==
  IF resp.bodyError # Null THEN Thrown(resp.bodyError)
  ELSE IF v = "ts" THEN readBodyTs(resp)
  ELSE readBody(v, resp)

\* tryBody as a table over the variants and the responses
tryBodyOf == [v \in Variants |-> [resp \in Responses |-> tryBody(v, resp)]]

\* a faulty catch clause: it throws the error again
catchRethrow(out) == [listings |-> listings, error |-> error, uncaught |-> TRUE]

\* a faulty catch clause: it leaves the listing collection alone
catchKeepListings(out) ==
  [listings |-> listings,
   error |-> Str(IF Truthy(out.message) THEN StringOf(out.message) ELSE TextSomethingWentWrong),
   uncaught |-> FALSE]

\* the state the catch clause leaves: setListings([]), setError(e?.message || ...)
catch(out) ==
  [listings |-> Arr(<<>>),
   error |-> Str(IF Truthy(out.message) THEN StringOf(out.message) ELSE TextSomethingWentWrong),
   uncaught |-> FALSE]

\* try / catch: the state a finished try block leaves
tryCatch(out) ==
  IF out.threw THEN catch(out)
  ELSE [listings |-> out.listings, error |-> error, uncaught |-> FALSE]

NoResponse == Response(0, <<>>, Null, TextBody(<<>>), Null)

RemoveAt(q, i) == SubSeq(q, 1, i - 1) \o SubSeq(q, i + 1, Len(q))

\* the endpoint a call posts to
Endpoint == IF variant = "jsx" /\ mode = "search" THEN "/api/search-rightmove" ELSE "/api/fetch"

\* a faulty start of fetchListings: it empties the listing collection
fetchListingsClearing ==
  /\ loading' = TRUE
  /\ error' = Null
  /\ listings' = Arr(<<>>)
  /\ calls' = Append(calls, [pc |-> IF variant = "mock" /\ useMock THEN "timer" ELSE "fetch",
                             url |-> Endpoint,
                             resp |-> NoResponse])
  /\ UNCHANGED <<others, variant, engine, mode, useMock, threshold, requireArea, sort,
                 uncaught, crashed>>

\* a call of fetchListings up to its first await
fetchListings ==
  /\ loading' = TRUE
  /\ error' = Null
  /\ calls' = Append(calls, [pc |-> IF variant = "mock" /\ useMock THEN "timer" ELSE "fetch",
                             url |-> Endpoint,
                             resp |-> NoResponse])
  /\ UNCHANGED <<others, variant, engine, mode, useMock, threshold, requireArea, sort, listings,
                 uncaught, crashed>>

\* a fetch button that is never disabled
ClickFetchAlways ==
  /\ ~crashed
  /\ fetchListings

\* a click on the fetch button, which is disabled while loading
ClickFetch ==
  /\ ~crashed
  /\ ~loading
  /\ fetchListings

\* a faulty end of call i: the finally clause is missing
SettleWithoutFinally(i, out) ==
  /\ listings' = tryCatch(out).listings
  /\ error' = tryCatch(out).error
  /\ uncaught' = (uncaught \/ tryCatch(out).uncaught)
  /\ loading' = loading
  /\ calls' = RemoveAt(calls, i)
  /\ crashed' = (crashed \/ ~IsArray(tryCatch(out).listings))
  /\ UNCHANGED <<others, variant, engine, mode, useMock, threshold, requireArea, sort>>

\* the end of call i: try / catch / finally, then the render of the new state
Settle(i, out) ==
  /\ listings' = tryCatch(out).listings
  /\ error' = tryCatch(out).error
  /\ uncaught' = (uncaught \/ tryCatch(out).uncaught)
  /\ loading' = FALSE
  /\ calls' = RemoveAt(calls, i)
  /\ crashed' = (crashed \/ ~IsArray(tryCatch(out).listings))
  /\ UNCHANGED <<others, variant, engine, mode, useMock, threshold, requireArea, sort>>

\* the mock branch: the timer of 300 ms fires
TimerFires(i) ==
  /\ ~crashed
  /\ calls[i].pc = "timer"
  /\ Settle(i, Returned(Arr(MOCK_LISTINGS)))

\* fetch(...) rejects
FetchRejects(i, message) ==
  /\ ~crashed
  /\ calls[i].pc = "fetch"
  /\ Settle(i, Thrown(Str(message)))

\* fetch(...) resolves with a response
FetchResolves(i, resp) ==
  /\ ~crashed
  /\ calls[i].pc = "fetch"
  /\ calls' = [calls EXCEPT ![i] = [pc |-> "body", url |-> calls[i].url, resp |-> resp]]
  /\ UNCHANGED <<others, variant, engine, mode, useMock, threshold, requireArea, sort, loading,
                 error, listings, uncaught, crashed>>

\* the body of the response arrives, or fails to
BodyArrives(i) ==
  /\ ~crashed
  /\ calls[i].pc = "body"
  /\ Settle(i, tryBodyOf[variant][calls[i].resp])

\* the mode tabs of App.jsx
SetMode(m) ==
  /\ ~crashed
  /\ variant = "jsx"
  /\ mode' = m
  /\ UNCHANGED <<others, variant, engine, useMock, threshold, requireArea, sort, loading, error,
                 listings, calls, uncaught, crashed>>

\* the mock switch of the mock-capable variant
SetUseMock(checked) ==
  /\ ~crashed
  /\ variant = "mock"
  /\ useMock' = checked
  /\ UNCHANGED <<others, variant, engine, mode, threshold, requireArea, sort, loading, error,
                 listings, calls, uncaught, crashed>>

Next ==
  \/ \E text \in ThresholdInputs : SetThreshold(text)
  \/ \E checked \in BOOLEAN : SetRequireArea(checked)
  \/ \E key \in SortKeys : SetSort(key)
  \/ \E m \in {"search", "url"} : SetMode(m)
  \/ \E checked \in BOOLEAN : SetUseMock(checked)
  \/ ClickFetch
  \/ \E i \in 1..Len(calls) : TimerFires(i)
  \/ \E i \in 1..Len(calls), message \in NetworkErrors : FetchRejects(i, message)
  \/ \E i \in 1..Len(calls), resp \in Responses : FetchResolves(i, resp)
  \/ \E i \in 1..Len(calls) : BodyArrives(i)

Spec == Init /\ [][Next]_vars

\* The fetches alone: the filter controls, which no step of a fetch reads
\* and which read nothing a fetch writes but the listings, are left at
\* their defaults.
LiveNext ==
  \/ \E m \in {"search", "url"} : SetMode(m)
  \/ \E checked \in BOOLEAN : SetUseMock(checked)
  \/ ClickFetch
  \/ \E i \in 1..Len(calls) : TimerFires(i)
  \/ \E i \in 1..Len(calls), message \in NetworkErrors : FetchRejects(i, message)
  \/ \E i \in 1..Len(calls), resp \in Responses : FetchResolves(i, resp)
  \/ \E i \in 1..Len(calls) : BodyArrives(i)

\* Every request ends: a pending fetch resolves or rejects, the body of a
\* response arrives or fails, the mock timer fires.
Fairness ==
  /\ WF_vars(\E i \in 1..Len(calls) :
               \/ \E resp \in Responses : FetchResolves(i, resp)
               \/ \E message \in NetworkErrors : FetchRejects(i, message))
  /\ WF_vars(\E i \in 1..Len(calls) : BodyArrives(i))
  /\ WF_vars(\E i \in 1..Len(calls) : TimerFires(i))

SpecLive == Init /\ [][LiveNext]_vars /\ Fairness

----------------------------------------------------------------------------
(* Error handling of fetchListings *)

\* call i ends in this step
Ends(i) == i \in 1..Len(calls) /\ calls' = RemoveAt(calls, i)

\* a response that is a failure: its body cannot be read, is not JSON, or
\* its status reports an error
FailedResponse(resp) ==
  \/ resp.bodyError # Null
  \/ resp.body.parsed = SyntaxError
  \/ ~Ok(resp)

\* call i ends in this step after a failure: a rejected fetch or a failed response
EndsInFailure(i) ==
  /\ Ends(i)
  /\ \/ calls[i].pc = "fetch"
     \/ calls[i].pc = "body" /\ FailedResponse(calls[i].resp)

\* C7: every failure during a fetch (a rejected fetch, a body that cannot be
\* read or is not JSON, a status that reports an error) is caught inside
\* fetchListings: the call ends with the listing collection empty and the
\* error one non-empty string, and no exception escapes.
C7_FailureCaughtAndReported ==
  [][\A i \in 1..Len(calls) :
       EndsInFailure(i) =>
         /\ listings' = Arr(<<>>)
         /\ error'.t = "string" /\ error'.s # <<>>
         /\ ~uncaught']_vars

\* a rejection without a message has been reported by the fallback text
C7_Witness ==
  /\ calls = <<>> /\ ~loading
  /\ error = Str(TextSomethingWentWrong)
  /\ listings = Arr(<<>>)
  /\ ~uncaught

\* C8: with fetches started through the fetch button, an error is never
\* shown together with results: a non-null error implies an empty listing
\* collection.
C8_ErrorImpliesNoListings == error # Null => listings = Arr(<<>>)

\* an error is shown after the mode and the filter controls have changed
C8_Witness ==
  /\ error # Null /\ listings = Arr(<<>>)
  /\ calls = <<>>
  /\ sort = "price" /\ ~requireArea

\* the response of call i has a body that is read and is not JSON
NonJsonBody(resp) == resp.bodyError = Null /\ resp.body.parsed = SyntaxError

\* C9: when the body of the response is not JSON, the fetch ends with the
\* listing collection empty and an error message that contains the status
\* code and the snippet of the body: its first 180 characters (160 in the
\* mock-capable variant) and no more, runs of white space collapsed.
C9_NonJsonBodyReported ==
  [][\A i \in 1..Len(calls) :
       (Ends(i) /\ calls[i].pc = "body" /\ NonJsonBody(calls[i].resp)) =>
         LET resp == calls[i].resp
             limit == IF variant = "mock" THEN 160 ELSE 180
         IN  /\ listings' = Arr(<<>>)
             /\ error'.t = "string"
             /\ Includes(error'.s, NatText(resp.status))
             /\ Includes(error'.s, CollapseSpace(Slice(resp.body.text, limit)))
             /\ Len(resp.body.text) > limit =>
                  ~Includes(error'.s, CollapseSpace(Slice(resp.body.text, limit + 1)))]_vars

\* C10: in App.jsx and the mock-capable variant, when the response has a
\* status outside 2xx and a JSON body (a JSON object served with a JSON
\* content type), the fetch ends with the listing
\* collection empty and the error equal to the error member of the body when
\* that member is present and not empty, else to "API error <status>"; the
\* listings member of such a response is not shown.
C10_ApplicationErrorReported ==
  [][\A i \in 1..Len(calls) :
       (/\ Ends(i) /\ calls[i].pc = "body"
        /\ variant \in {"jsx", "mock"}
        /\ calls[i].resp.bodyError = Null
        /\ ~Ok(calls[i].resp)
        /\ calls[i].resp.body.parsed.t = "object"
        /\ calls[i].resp.contentType = ContentTypeJson) =>
         LET resp == calls[i].resp
             member == resp.body.parsed.error
         IN  /\ listings' = Arr(<<>>)
             /\ error' = IF member.t = "string" /\ member.s # <<>>
                         THEN member
                         ELSE Str(TextApiError \o NatText(resp.status))]_vars

\* the error member of a body has been reported
C10_Witness ==
  /\ variant \in {"jsx", "mock"}
  /\ calls = <<>> /\ ~loading
  /\ error = Str(<<"b", "o", "o", "m">>)
  /\ listings = Arr(<<>>)

----------------------------------------------------------------------------
(* The loading flag *)

----------------------------------------------------------------------------
(* toNumber called on its own *)

True == Val("true", 0, <<>>)
False == Val("false", 0, <<>>)
Object == Val("object", 0, <<>>)

\* the longest text over TextAlphabet, and the number of calls of one helper
MaxText == 3
MaxCalls == 2

TextAlphabet == {"£", ",", " ", "0", "1", "5", ".", "-", "x", "a"}

\* the texts of the examples of part_001's diagnostics and of the documentation
ExampleTexts ==
  { <<"1", "2", "3">>, <<"1", "2", "3", ",", "4", "5", "6">>, <<"£", "1", ",", "2", "3", "4">>, <<" ", " ", "2", "5", "0", "0", "0", "0", " ">>, <<"a", "b", "c">>, <<"1", "8", ".", "5">>, <<"0", "x", "1", "0">> }

Texts == UNION { [1..k -> TextAlphabet] : k \in 0..MaxText } \cup ExampleTexts

\* the values toNumber is called with
NumberInputs ==
  { Null, Undefined, True, False, Object, NaN, Infinity, NegInfinity }
  \cup { Num(n) : n \in {-50, 0, 185, 1230} }
  \cup { Arr(a) : a \in { <<>>, <<Num(10)>>, <<Num(10), Num(20)>>, <<Str(<<"a">>)>>, <<Null>> } }
  \cup { Str(x) : x \in Texts }

\* the files that define toNumber, their viewers idle, and one value to call
\* toNumber with
NumberInit ==
  /\ Defaults /\ variant \in {"jsx", "mock"} /\ engine = "binary"
  /\ listings = Arr(<<>>)
  /\ NoPlanner
  /\ fn = "toNumber"
  /\ \E v \in NumberInputs : args = <<v>>
  /\ returned = <<>>

\* a call of toNumber(args[1])
CallToNumber ==
  /\ fn = "toNumber"
  /\ Len(returned) < MaxCalls
  /\ returned' = Append(returned, toNumber(args[1]))
  /\ UNCHANGED <<fn, args, viewer, planner>>

SpecNumber == NumberInit /\ [][CallToNumber]_vars

\* the value and the result of the last call of toNumber
numberArg == args[1]
numberResult == returned[Len(returned)]

\* C12: toNumber returns a finite number unchanged, returns the NaN sentinel
\* for the numbers NaN, +Infinity and -Infinity, and returns the sentinel
\* for null and for undefined.
C12_NumbersPassNullIsNaN ==
  (fn = "toNumber" /\ returned # <<>>) =>
    /\ numberArg.t = "number" => numberResult = numberArg
    /\ numberArg.t \in {"NaN", "Infinity", "-Infinity"} => numberResult = NaN
    /\ numberArg.t \in {"null", "undefined"} => numberResult = NaN

\* toNumber has answered NaN for -Infinity
C12_Witness ==
  /\ fn = "toNumber" /\ returned # <<>>
  /\ numberArg = NegInfinity
  /\ numberResult = NaN

\* s is a decimal numeral: an optional sign, digits, at most one point, and
\* at least one digit
DecimalNumeral(s) ==
  LET body == IF s # <<>> /\ s[1] \in {"-", "+"} THEN Tail(s) ELSE s
  IN  /\ \A i \in 1..Len(body) : body[i] \in Digits \cup {"."}
      /\ Cardinality({i \in 1..Len(body) : body[i] = "."}) <= 1
      /\ \E i \in 1..Len(body) : body[i] \in Digits

\* the value in tenths of a decimal numeral, digits after the first decimal
\* place dropped
RECURSIVE DecimalTenths(_)
DecimalTenths(s) ==
  IF s[1] = "-" THEN -DecimalTenths(Tail(s))
  ELSE IF s[1] = "+" THEN DecimalTenths(Tail(s))
  ELSE LET dots == {i \in 1..Len(s) : s[i] = "."}
           dot == IF dots = {} THEN Len(s) + 1 ELSE CHOOSE i \in dots : TRUE
       IN  10 * DigitsVal(SubSeq(s, 1, dot - 1))
             + (IF dot < Len(s) THEN DigitVal(s[dot + 1]) ELSE 0)

\* C13: for every string, toNumber removes every '£', comma and white-space
\* character and returns the value of the decimal numeral that remains
\* ("123" -> 123, "123,456" -> 123456, "£1,234" -> 1234, "  250000 " ->
\* 250000), and the NaN sentinel when what remains is no decimal numeral
\* ("abc" -> sentinel).
C13_StringsParseAsDecimal ==
  (fn = "toNumber" /\ returned # <<>> /\ numberArg.t = "string") =>
    LET cleaned == Remove(numberArg.s, Stripped)
    IN  /\ \A i \in 1..Len(cleaned) : cleaned[i] \notin Stripped
        /\ numberResult = IF DecimalNumeral(cleaned) THEN Num(DecimalTenths(cleaned)) ELSE NaN
        /\ numberArg.s = <<"1", "2", "3">> => numberResult = Num(Tenths(123))
        /\ numberArg.s = <<"1", "2", "3", ",", "4", "5", "6">> => numberResult = Num(Tenths(123456))
        /\ numberArg.s = <<"£", "1", ",", "2", "3", "4">> => numberResult = Num(Tenths(1234))
        /\ numberArg.s = <<" ", " ", "2", "5", "0", "0", "0", "0", " ">> => numberResult = Num(Tenths(250000))
        /\ numberArg.s = <<"a", "b", "c">> => numberResult = NaN

\* the values a JSON response can carry
JsonCarried(v) ==
  \/ v.t \in {"null", "true", "false", "number", "string", "object"}
  \/ v.t = "array" /\ \A i \in 1..Len(v.s) : v.s[i].t \in {"null", "number", "string"}

----------------------------------------------------------------------------
(* The normalized collection *)

\* the raw value v, '£', commas and white space removed from its text,
\* parses as a finite number: it is a finite number, or its text is a
\* decimal numeral
ParsesAsFinite(v) ==
  IF IsNumberType(v) THEN IsFinite(v)
  ELSE v.t \notin {"null", "undefined"} /\ DecimalNumeral(Remove(StringOf(v), Stripped))

\* the derived field d of a normalized record is toNumber of the raw field r
DerivedFrom(d, r) == d = toNumber(r) /\ (IsFinite(d) <=> ParsesAsFinite(r))

\* C15: in App.jsx and part_001 the normalized collection has one record per
\* raw listing, in the same order; each record has the raw fields unchanged
\* and the six derived fields priceN, sqmN, sqftN, ppsmN, ppsfN, uvN, each
\* toNumber of its raw field and so finite exactly when that raw field,
\* stripped of '£', commas and white space, parses as a finite number.
C15_NormalizedMirrorsRaw ==
  (variant \in {"jsx", "mock"}) =>
    LET raw == listingsOrEmpty.s
        norm == normalizedNow
    IN  /\ Len(norm) = Len(raw)
        /\ \A i \in 1..Len(raw) :
             /\ norm[i].title = raw[i].title
             /\ norm[i].price = raw[i].price
             /\ norm[i].sqm = raw[i].sqm
             /\ norm[i].sqft = raw[i].sqft
             /\ norm[i].pricePerSqm = raw[i].pricePerSqm
             /\ norm[i].pricePerSqft = raw[i].pricePerSqft
             /\ norm[i].undervaluePct = raw[i].undervaluePct
             /\ DOMAIN norm[i] = DOMAIN raw[i] \cup {"priceN", "sqmN", "sqftN", "ppsmN", "ppsfN", "uvN"}
             /\ DerivedFrom(norm[i].priceN, raw[i].price)
             /\ DerivedFrom(norm[i].sqmN, raw[i].sqm)
             /\ DerivedFrom(norm[i].sqftN, raw[i].sqft)
             /\ DerivedFrom(norm[i].ppsmN, raw[i].pricePerSqm)
             /\ DerivedFrom(norm[i].ppsfN, raw[i].pricePerSqft)
             /\ DerivedFrom(norm[i].uvN, raw[i].undervaluePct)

----------------------------------------------------------------------------
(* The threshold *)

\* C16: the threshold is 20 initially; in every variant a threshold input
\* whose number is not finite is coerced to 0; and the threshold that the
\* filter compares with is always a finite number.
C16_ThresholdFinite ==
  /\ threshold = Num(Tenths(20))
  /\ [][\A text \in ThresholdInputs :
          (SetThreshold(text) /\ ~IsFinite(StringToNumber(text))) => threshold' = Num(0)]_vars
  /\ [](IsFinite(thresholdUsed(variant, threshold)))

----------------------------------------------------------------------------
(* parseMaybeJson called on its own *)

\* the content types parseMaybeJson is called with: none, the empty text of
\* a missing header, and five texts
ContentTypes ==
  { Null, Undefined, Str(<<>>), ContentTypeHtml, ContentTypeJson,
    Str(TextApplicationJson), Str(<<"t", "e", "x", "t", "/", "p", "l", "a", "i", "n">>), Str(<<"A", "P", "P", "L", "I", "C", "A", "T", "I", "O", "N", "/", "J", "S", "O", "N">>),
    Str(<<"a", "p", "p", "l", "i", "c", "a", "t", "i", "o", "n", "/", "p", "r", "o", "b", "l", "e", "m", "+", "j", "s", "o", "n">>) }

\* the bodies parseMaybeJson is called with: the JSON values of the
\* responses, and four texts that are no JSON
ParseBodies ==
  { JsonBody(d) : d \in JsonValues }
  \cup { TextBody(x) : x \in {<<>>, HtmlPage, LongText, <<"{", "\"", "e", "r", "r">>} }

\* the files that define parseMaybeJson, their viewers idle, and one text and
\* one content type to call parseMaybeJson with
ParseInit ==
  /\ Defaults /\ variant \in {"jsx", "mock"} /\ engine = "binary"
  /\ listings = Arr(<<>>)
  /\ NoPlanner
  /\ fn = "parseMaybeJson"
  /\ \E body \in ParseBodies, ct \in ContentTypes : args = <<body, ct>>
  /\ returned = <<>>

\* a call of parseMaybeJson(args[1].text, args[2])
CallParseMaybeJson ==
  /\ fn = "parseMaybeJson"
  /\ Len(returned) < MaxCalls
  /\ returned' = Append(returned, parseMaybeJson(args[1], args[2]))
  /\ UNCHANGED <<fn, args, viewer, planner>>

SpecParse == ParseInit /\ [][CallParseMaybeJson]_vars

\* C17: parseMaybeJson returns the parsed value when the content type
\* contains "application/json" and the text is valid JSON, and only then; in
\* every other case (another or no content type, malformed JSON) it returns
\* null; it never throws.
C17_ParseOnlyDeclaredJson ==
  (fn = "parseMaybeJson" /\ returned # <<>>) =>
    LET body == args[1]
        ct == args[2]
        result == returned[Len(returned)]
        declared == ct.t = "string" /\ Includes(ct.s, TextApplicationJson)
        valid == body.parsed # SyntaxError
    IN  /\ (declared /\ valid) => result = body.parsed
        /\ ~(declared /\ valid) => result = JsonNull
        /\ result # SyntaxError

\* the test of part_001's diagnostics: an HTML page with text/html gives null
C17_Witness ==
  /\ fn = "parseMaybeJson"
  /\ args = <<TextBody(HtmlPage), ContentTypeHtml>>
  /\ returned = <<JsonNull>>

----------------------------------------------------------------------------
(* JSON texts in the content planner (src/unnamed/part_000, second         *)
(* component).  A JSON value is a value [t, n, s]; the s of an object is   *)
(* the sequence of its members [key, value], the key a sequence of         *)
(* characters.  The texts of the model have no escape sequences and no     *)
(* fractions.                                                              *)

Member(key, value) == [key |-> key, value |-> value]
Obj(members) == Val("object", 0, members)

\* JSON.stringify(v)
RECURSIVE Stringify(_)
Stringify(v) ==
  CASE v.t = "string" -> Quoted(v.s)
    [] v.t = "number" -> NumberText(v.n)
    [] v.t = "true" -> <<"t", "r", "u", "e">>
    [] v.t = "false" -> <<"f", "a", "l", "s", "e">>
    [] v.t = "array" ->
         <<"[">> \o JoinText([i \in 1..Len(v.s) |-> Stringify(v.s[i])]) \o <<"]">>
    [] v.t = "object" ->
         <<"{">> \o JoinText([i \in 1..Len(v.s) |->
                               Quoted(v.s[i].key) \o <<":">> \o Stringify(v.s[i].value)])
           \o <<"}">>
    [] OTHER -> <<"n", "u", "l", "l">>

\* the first position from i on that holds no white space
RECURSIVE SkipSpace(_, _)
SkipSpace(c, i) ==
  IF i <= Len(c) /\ c[i] \in WhiteSpace THEN SkipSpace(c, i + 1) ELSE i

\* the first position from i on that holds no digit
RECURSIVE SkipDigits(_, _)
SkipDigits(c, i) ==
  IF i <= Len(c) /\ c[i] \in Digits THEN SkipDigits(c, i + 1) ELSE i

\* the first position from i on that holds a double quote, or Len(c) + 1
RECURSIVE FindQuote(_, _)
FindQuote(c, i) ==
  IF i <= Len(c) /\ c[i] # "\"" THEN FindQuote(c, i + 1) ELSE i

\* the result of parsing: a value and the position after it, or a failure
Parsed(v, next) == [ok |-> TRUE, v |-> v, next |-> next]
Failed == [ok |-> FALSE, v |-> Null, next |-> 0]

\* c holds the word w at position i
HasWord(c, i, w) ==
  c[i] = w[1] /\ i + Len(w) - 1 <= Len(c) /\ SubSeq(c, i, i + Len(w) - 1) = w

RECURSIVE ParseValue(_, _), ParseElements(_, _, _), ParseMembers(_, _, _)

\* the JSON value that starts at position i of c
ParseValue(c, i) ==
  IF i > Len(c) THEN Failed
  ELSE IF HasWord(c, i, <<"n", "u", "l", "l">>) THEN Parsed(Null, i + 4)
  ELSE IF HasWord(c, i, <<"t", "r", "u", "e">>) THEN Parsed(Val("true", 0, <<>>), i + 4)
  ELSE IF HasWord(c, i, <<"f", "a", "l", "s", "e">>) THEN Parsed(Val("false", 0, <<>>), i + 5)
  ELSE IF c[i] = "\"" THEN
    LET q == FindQuote(c, i + 1)
    IN  IF q > Len(c) THEN Failed ELSE Parsed(Str(SubSeq(c, i + 1, q - 1)), q + 1)
  ELSE IF c[i] \in Digits THEN
    LET e == SkipDigits(c, i)
    IN  IF c[i] = "0" /\ e > i + 1 THEN Failed
        ELSE Parsed(Num(10 * DigitsVal(SubSeq(c, i, e - 1))), e)
  ELSE IF c[i] = "-" THEN
    LET e == SkipDigits(c, i + 1)
    IN  IF e = i + 1 \/ (c[i + 1] = "0" /\ e > i + 2) THEN Failed
        ELSE Parsed(Num(-10 * DigitsVal(SubSeq(c, i + 1, e - 1))), e)
  ELSE IF c[i] = "[" THEN
    LET j == SkipSpace(c, i + 1)
    IN  IF j <= Len(c) /\ c[j] = "]" THEN Parsed(Arr(<<>>), j + 1)
        ELSE ParseElements(c, j, <<>>)
  ELSE IF c[i] = "{" THEN
    LET j == SkipSpace(c, i + 1)
    IN  IF j <= Len(c) /\ c[j] = "}" THEN Parsed(Obj(<<>>), j + 1)
        ELSE ParseMembers(c, j, <<>>)
  ELSE Failed

\* the elements of an array from position i on, after the elements acc
ParseElements(c, i, acc) ==
  LET r == ParseValue(c, i)
      j == SkipSpace(c, r.next)
  IN  IF ~r.ok \/ j > Len(c) THEN Failed
      ELSE IF c[j] = "]" THEN Parsed(Arr(Append(acc, r.v)), j + 1)
      ELSE IF c[j] = "," THEN ParseElements(c, SkipSpace(c, j + 1), Append(acc, r.v))
      ELSE Failed

\* the members of an object from position i on, after the members acc
ParseMembers(c, i, acc) ==
  IF i > Len(c) \/ c[i] # "\"" THEN Failed
  ELSE
    LET q == FindQuote(c, i + 1)
        colon == SkipSpace(c, q + 1)
    IN  IF q > Len(c) \/ colon > Len(c) \/ c[colon] # ":" THEN Failed
        ELSE
          LET r == ParseValue(c, SkipSpace(c, colon + 1))
              j == SkipSpace(c, r.next)
              key == SubSeq(c, i + 1, q - 1)
              kept == SelectSeq(acc, LAMBDA m : m.key # key)
          IN  IF ~r.ok \/ j > Len(c) THEN Failed
              ELSE IF c[j] = "}" THEN Parsed(Obj(Append(kept, Member(key, r.v))), j + 1)
              ELSE IF c[j] = "," THEN
                ParseMembers(c, SkipSpace(c, j + 1), Append(kept, Member(key, r.v)))
              ELSE Failed

\* what JSON.parse throws
JsonSyntaxError == Val("SyntaxError", 0, <<>>)

\* JSON.parse(text): the value of the text, or the SyntaxError it throws
JSONParseText(text) ==
  LET r == ParseValue(text, SkipSpace(text, 1))
  IN  IF r.ok /\ SkipSpace(text, r.next) = Len(text) + 1 THEN r.v ELSE JsonSyntaxError

----------------------------------------------------------------------------
(* The content planner (src/unnamed/part_000, second component).  Of an    *)
(* item the model keeps id, type, parentId, title, content and updatedAt;  *)
(* tags, status and createdAt are left out.  The search box stays empty.   *)
(* localStorage is available and within its quota.                         *)

KeyId == <<"i", "d">>
KeyType == <<"t", "y", "p", "e">>
KeyParentId == <<"p", "a", "r", "e", "n", "t", "I", "d">>
KeyTitle == <<"t", "i", "t", "l", "e">>
KeyContent == <<"c", "o", "n", "t", "e", "n", "t">>
KeyUpdatedAt == <<"u", "p", "d", "a", "t", "e", "d", "A", "t">>

TextVideoType == <<"v", "i", "d", "e", "o">>
TextScriptType == <<"s", "c", "r", "i", "p", "t">>
TextThumbnailType == <<"t", "h", "u", "m", "b", "n", "a", "i", "l">>
TextHeadlineType == <<"h", "e", "a", "d", "l", "i", "n", "e">>
ChildTypes == { TextScriptType, TextThumbnailType, TextHeadlineType }

TextNewVideo == <<"N", "e", "w", " ", "V", "i", "d", "e", "o">>
TextScript == <<"S", "c", "r", "i", "p", "t">>
TextThumbnail == <<"T", "h", "u", "m", "b", "n", "a", "i", "l">>
TextPunchy == <<"P", "u", "n", "c", "h", "y", " ", "h", "e", "a", "d", "l", "i", "n", "e", " ", "i", "d", "e", "a">>
TextVideoCreated == <<"V", "i", "d", "e", "o", " ", "c", "r", "e", "a", "t", "e", "d">>
TextAdded == <<" ", "a", "d", "d", "e", "d">>
TextDeleted == <<"D", "e", "l", "e", "t", "e", "d">>
TextImportedJson == <<"I", "m", "p", "o", "r", "t", "e", "d", " ", "J", "S", "O", "N">>
TextInvalidJson == <<"I", "n", "v", "a", "l", "i", "d", " ", "J", "S", "O", "N">>
TextSaved == <<"S", "a", "v", "e", "d">>

\* c.toUpperCase() for the first letters of the child types
ToUpperCase(c) == CASE c = "s" -> "S" [] c = "t" -> "T" [] c = "h" -> "H" [] OTHER -> c

\* the elements of an array
Range(q) == { q[i] : i \in 1..Len(q) }

\* obj[key]: the property of a value that is neither null nor undefined
Get(obj, key) ==
  IF obj.t = "object" /\ \E i \in 1..Len(obj.s) : obj.s[i].key = key
  THEN obj.s[CHOOSE i \in 1..Len(obj.s) : obj.s[i].key = key].value
  ELSE Undefined

\* { ...obj, [key]: value }
With(obj, key, value) ==
  IF \E i \in 1..Len(obj.s) : obj.s[i].key = key
  THEN Obj([i \in 1..Len(obj.s) |->
              IF obj.s[i].key = key THEN Member(key, value) ELSE obj.s[i]])
  ELSE Obj(Append(obj.s, Member(key, value)))

\* a === b for the values of the model, none of which is compared by reference
StrictEquals(a, b) == a.t # "NaN" /\ a = b

\* how many ids and how many instants the model has
MaxIds == 2
MaxClock == 1
\* how many items the collection holds at most, and how many files are read at a time
MaxItems == 2
MaxReads == 1

\* uid(): an id that no call has returned before
uid == Str(<<"i">> \o NatText(nextId))
\* nowISO()
nowISO == Str(<<"t">> \o NatText(clock))

\* createBase(type, parentId = null)
createBase(type, parentId) ==
  Obj(<< Member(KeyId, uid),
         Member(KeyType, Str(type)),
         Member(KeyParentId, IF parentId = Undefined THEN Null ELSE parentId),
         Member(KeyTitle, Str(<<>>)),
         Member(KeyContent, Str(<<>>)),
         Member(KeyUpdatedAt, nowISO) >>)

\* the videos the page shows: useMemo(() => items.filter(...)) with an empty query
videos(list) == SelectSeq(list.s, LAMBDA i : Get(i, KeyType) = Str(TextVideoType))
\* childrenOf(videoId)
childrenOf(list, videoId) ==
  SelectSeq(list.s, LAMBDA i : StrictEquals(Get(i, KeyParentId), videoId))

\* the items that have an Edit and a Delete button: the videos and, under each
\* video, its scripts, thumbnails and headlines
Displayed(list) ==
  Range(videos(list))
  \cup { k \in Range(list.s) :
           \E v \in Range(videos(list)) :
             /\ StrictEquals(Get(k, KeyParentId), Get(v, KeyId))
             /\ Get(k, KeyType).t = "string" /\ Get(k, KeyType).s \in ChildTypes }

\* rendering the collection throws a TypeError: an element has no properties,
\* a video's title has no toLowerCase, a video's id has no slice, or a
\* displayed title is an object
RenderThrows(list) ==
  \/ \E i \in 1..Len(list.s) : list.s[i].t \in {"null", "undefined"}
  \/ \E v \in Range(videos(list)) :
       \/ Get(v, KeyTitle).t # "string"
       \/ Get(v, KeyId).t # "string"
  \/ \E k \in Displayed(list) : Get(k, KeyTitle).t = "object"

\* useLocalStorageArray with an initial state that never reads the storage
useLocalStorageArrayUnread(raw, initial) == initial

\* the initial state of useLocalStorageArray(key, initial), raw being
\* localStorage.getItem(key)
useLocalStorageArray(raw, initial) ==
  IF ~Truthy(raw) THEN initial
  ELSE LET parsed == JSONParseText(raw.s)
       IN  IF parsed = JsonSyntaxError THEN initial
           ELSE IF IsArray(parsed) THEN parsed ELSE initial

\* React renders the planner with the collection list and then runs the effect
\* of useLocalStorageArray, which stores the text of the collection; when the
\* render throws React unmounts the page and no effect runs
Render(list) ==
  /\ items' = list
  /\ IF RenderThrows(list)
     THEN page' = "crashed" /\ UNCHANGED <<storage, saved>>
     ELSE /\ page' = "mounted"
          /\ storage' = Str(Stringify(list))
          /\ saved' = list

\* showToast(msg); the timer that clears the notice is ToastExpires
showToast(msg) == toast' = msg

\* what another session of the planner left in the storage
StoredArrays ==
  { Arr(<<>>),
    Arr(<< Obj(<< Member(KeyId, Str(<<"a">>)), Member(KeyType, Str(TextScriptType)),
                  Member(KeyParentId, Str(<<"b">>)), Member(KeyTitle, Str(TextScript)),
                  Member(KeyContent, Str(<<>>)), Member(KeyUpdatedAt, Str(<<"t", "0">>)) >>),
           Obj(<< Member(KeyId, Str(<<"b">>)), Member(KeyType, Str(TextVideoType)),
                  Member(KeyParentId, Null), Member(KeyTitle, Str(TextNewVideo)),
                  Member(KeyContent, Str(<<>>)), Member(KeyUpdatedAt, Str(<<"t", "0">>)) >>) >>) }
\* stored texts that are not the text of an array
StoredOther == { <<>>, <<"{", "}">>, <<"[", "{", "\"", "i", "d", "\"", ":">>, <<"n", "u", "l", "l">>, <<"\"", "[", "]", "\"">>, <<"5">> }

\* a file whose text is a JSON object
FileObject == <<"{", "\"", "i", "t", "e", "m", "s", "\"", ":", "[", "]", "}">>
\* a file whose text is not JSON
FileBroken == <<"[", "1", ",">>
\* a file whose text is an array with an element that is no item
FileNullArray == <<"[", "n", "u", "l", "l", "]">>
\* a file whose text is an array of items, as an export writes it
FileExported ==
  <<"[", " ", "{", "\"", "i", "d", "\"", ":", " ", "\"", "b", "\"", ",", " ", "\"", "t", "y", "p", "e", "\"", ":", " ", "\"", "v", "i", "d", "e", "o", "\"", ",", " ", "\"", "p", "a", "r", "e", "n", "t", "I", "d", "\"", ":", " ", "n", "u", "l", "l", ",", " ", "\"", "t", "i", "t", "l", "e", "\"", ":", " ", "\"", "P", "l", "a", "n", "\"", "}", ",", "\n", " ", "{", "\"", "i", "d", "\"", ":", " ", "\"", "a", "\"", ",", " ", "\"", "t", "y", "p", "e", "\"", ":", " ", "\"", "h", "e", "a", "d", "l", "i", "n", "e", "\"", ",", " ", "\"", "p", "a", "r", "e", "n", "t", "I", "d", "\"", ":", " ", "\"", "b", "\"", ",", " ", "\"", "t", "i", "t", "l", "e", "\"", ":", " ", "\"", "\"", "}", " ", "]">>

\* the texts of the files the user imports
Files == { FileObject, FileBroken, FileNullArray, FileExported }

\* the titles the user types in the edit dialog
EditedTitles == { <<"I", "n", "t", "r", "o">> }

\* the buttons of the page can be clicked: the page is mounted and the edit
\* dialog, which covers the whole page (.modal), is closed
PageButtons == page = "mounted" /\ ~Truthy(editingItem)

\* the page is opened or reloaded: the state is initialised and rendered
Load ==
  /\ editingItem' = Null
  /\ toast' = <<>>
  /\ reads' = <<>>
  /\ UNCHANGED <<nextId, clock, viewer, bench>>
  /\ Render(useLocalStorageArray(storage, Arr(<<>>)))

createVideo ==
  /\ PageButtons /\ nextId < MaxIds /\ Len(items.s) < MaxItems
  /\ LET v == With(createBase(TextVideoType, Null), KeyTitle, Str(TextNewVideo))
     IN  Render(Arr(<<v>> \o items.s))
  /\ showToast(TextVideoCreated)
  /\ nextId' = nextId + 1
  /\ UNCHANGED <<editingItem, reads, clock, viewer, bench>>

createChild(videoId, type) ==
  /\ PageButtons /\ nextId < MaxIds /\ Len(items.s) < MaxItems
  /\ LET base0 == createBase(type, videoId)
         base1 == IF type = TextHeadlineType
                  THEN With(base0, KeyContent, Str(TextPunchy)) ELSE base0
         base2 == IF type = TextScriptType
                  THEN With(base1, KeyTitle, Str(TextScript)) ELSE base1
         base == IF type = TextThumbnailType
                 THEN With(base2, KeyTitle, Str(TextThumbnail)) ELSE base2
     IN  Render(Arr(<<base>> \o items.s))
  /\ showToast(<<ToUpperCase(type[1])>> \o Tail(type) \o TextAdded)
  /\ nextId' = nextId + 1
  /\ UNCHANGED <<editingItem, reads, clock, viewer, bench>>

\* a click on the New or Add button of a section of a displayed video
ClickAdd ==
  \E v \in Range(videos(items)), type \in ChildTypes : createChild(Get(v, KeyId), type)

\* a click on the Edit button of a displayed item: setEditingItem(item)
ClickEdit ==
  /\ PageButtons
  /\ \E item \in Displayed(items) : editingItem' = item
  /\ UNCHANGED <<page, items, storage, saved, toast, reads, nextId, clock, viewer, bench>>

\* the title field of the edit dialog changes
EditTitle ==
  /\ page = "mounted" /\ editingItem # Null
  /\ \E text \in EditedTitles : editingItem' = With(editingItem, KeyTitle, Str(text))
  /\ UNCHANGED <<page, items, storage, saved, toast, reads, nextId, clock, viewer, bench>>

\* the Cancel button of the edit dialog, or a click beside the dialog
CancelEdit ==
  /\ page = "mounted" /\ editingItem # Null
  /\ editingItem' = Null
  /\ UNCHANGED <<page, items, storage, saved, toast, reads, nextId, clock, viewer, bench>>

\* a faulty upsertItem: an item that is not in the collection is added
upsertItemAdding(list, item) ==
  IF \E i \in 1..Len(list.s) : StrictEquals(Get(list.s[i], KeyId), Get(item, KeyId))
  THEN Arr([i \in 1..Len(list.s) |->
              IF StrictEquals(Get(list.s[i], KeyId), Get(item, KeyId))
              THEN With(item, KeyUpdatedAt, nowISO) ELSE list.s[i]])
  ELSE Arr(Append(list.s, With(item, KeyUpdatedAt, nowISO)))

\* the collection after upsertItem(item)
upsertItem(list, item) ==
  Arr([i \in 1..Len(list.s) |->
         IF StrictEquals(Get(list.s[i], KeyId), Get(item, KeyId))
         THEN With(item, KeyUpdatedAt, nowISO) ELSE list.s[i]])

\* the Save button of the edit dialog
saveEdit ==
  /\ page = "mounted" /\ Truthy(editingItem)
  /\ Render(upsertItem(items, editingItem))
  /\ editingItem' = Null
  /\ showToast(TextSaved)
  /\ UNCHANGED <<reads, nextId, clock, viewer, bench>>

\* a faulty removeItem: the children of the item stay
removeItemAlone(list, id) ==
  Arr(SelectSeq(list.s, LAMBDA p : ~StrictEquals(Get(p, KeyId), id)))

\* the collection after removeItem(id)
removeItem(list, id) ==
  Arr(SelectSeq(list.s, LAMBDA p : ~StrictEquals(Get(p, KeyId), id)
                                   /\ ~StrictEquals(Get(p, KeyParentId), id)))

\* a click on the Delete button of a displayed item
ClickDelete ==
  /\ PageButtons
  /\ \E item \in Displayed(items) : Render(removeItem(items, Get(item, KeyId)))
  /\ showToast(TextDeleted)
  /\ UNCHANGED <<editingItem, reads, nextId, clock, viewer, bench>>

\* onImport(file): a FileReader starts to read the file the user chose
onImport ==
  /\ PageButtons /\ Len(reads) < MaxReads
  /\ \E file \in Files : reads' = Append(reads, file)
  /\ UNCHANGED <<page, items, storage, saved, editingItem, toast, nextId, clock, viewer, bench>>

\* onload with a handler that empties the collection when it rejects a file
onloadClearing(text) ==
  LET data == JSONParseText(text)
  IN  IF data # JsonSyntaxError /\ IsArray(data)
      THEN Render(data) /\ showToast(TextImportedJson)
      ELSE Render(Arr(<<>>)) /\ showToast(TextInvalidJson)

\* reader.onload for the text of a file
onload(text) ==
  LET data == JSONParseText(text)
  IN  IF data # JsonSyntaxError /\ IsArray(data)
      THEN Render(data) /\ showToast(TextImportedJson)
      ELSE showToast(TextInvalidJson) /\ UNCHANGED <<page, items, storage, saved>>

\* a FileReader has read its file
FileLoaded ==
  /\ page = "mounted"
  /\ \E k \in 1..Len(reads) : onload(reads[k]) /\ reads' = RemoveAt(reads, k)
  /\ UNCHANGED <<editingItem, nextId, clock, viewer, bench>>

\* the timer of showToast fires: setToast("")
ToastExpires ==
  /\ page = "mounted" /\ toast # <<>>
  /\ toast' = <<>>
  /\ UNCHANGED <<page, items, storage, saved, editingItem, reads, nextId, clock, viewer, bench>>

\* time passes
Tick ==
  /\ clock < MaxClock
  /\ clock' = clock + 1
  /\ UNCHANGED <<page, items, storage, saved, editingItem, toast, reads, nextId, viewer, bench>>

\* before the planner is opened the storage holds what an earlier session or
\* another program left there
PlannerInit ==
  /\ Defaults /\ variant = "ts" /\ engine = "binary" /\ listings = Arr(<<>>)
  /\ NoBench
  /\ page = "closed" /\ items = Arr(<<>>) /\ editingItem = Null /\ toast = <<>>
  /\ reads = <<>> /\ nextId = 0 /\ clock = 0
  /\ \/ storage = Null /\ saved = Null
     \/ \E t \in StoredOther : storage = Str(t) /\ saved = Null
     \/ \E a \in StoredArrays : storage = Str(Stringify(a)) /\ saved = a

PlannerNext ==
  \/ Load
  \/ createVideo
  \/ ClickAdd
  \/ ClickEdit
  \/ EditTitle
  \/ CancelEdit
  \/ saveEdit
  \/ ClickDelete
  \/ onImport
  \/ FileLoaded
  \/ ToastExpires
  \/ Tick

SpecPlanner == PlannerInit /\ [][PlannerNext]_vars

----------------------------------------------------------------------------
(* C18: in the content planner, when the file that has been read holds a   *)
(* JSON value that is not an array, or no JSON at all, the item collection *)
(* and the stored collection stay as they were and the notice              *)
(* "Invalid JSON" is shown.                                                *)
C18_MalformedImportRejected ==
  [][\A k \in 1..Len(reads) :
       (FileLoaded /\ reads' = RemoveAt(reads, k) /\ reads[k] \in {FileObject, FileBroken})
         => (items' = items /\ storage' = storage /\ page' = page
             /\ toast' = TextInvalidJson)]_vars

\* a file that is no array has been rejected while the collection held items
C18_Witness ==
  /\ page = "mounted" /\ toast = TextInvalidJson /\ reads = <<>>
  /\ items.s # <<>> /\ storage = Str(Stringify(items))

----------------------------------------------------------------------------
(* C19: in the content planner, once the page has been opened and no file  *)
(* is still being read, the value stored under the storage key is the JSON *)
(* text of the whole current collection, whichever operation (create       *)
(* video, create child, save edit, delete, import of an array) changed the *)
(* collection last.                                                        *)
C19_StoredIsCurrentCollection ==
  (page # "closed" /\ reads = <<>>) => storage = Str(Stringify(items))

\* the same while the page is mounted
StoredWhileMounted == page = "mounted" => storage = Str(Stringify(items))

----------------------------------------------------------------------------
(* C20: in the content planner, a start of the page yields the array the   *)
(* planner stored last; when the storage key holds nothing, a text that is *)
(* not JSON or a JSON value that is not an array, the start yields the     *)
(* empty collection, and the page is mounted without an exception.         *)
C20_StartupRoundTrip ==
  [][Load =>
       /\ (saved # Null /\ storage = Str(Stringify(saved)))
            => (items' = saved /\ page' = "mounted")
       /\ (storage = Null \/ storage.s \in StoredOther)
            => (items' = Arr(<<>>) /\ page' = "mounted")]_vars

\* the page has started from a stored collection with items, and nothing has
\* been created since
C20_Witness ==
  /\ page = "mounted" /\ nextId = 0
  /\ items \in StoredArrays /\ items.s # <<>>

----------------------------------------------------------------------------
(* C21: the fetch button can be clicked exactly while loading is false (on *)
(* a page that has not crashed), and with fetches started by the button    *)
(* alone, in either mode, at most one request is in flight at any time.    *)
C21_OneRequestInFlight ==
  /\ Len(calls) <= 1
  /\ (ENABLED ClickFetch) <=> (~loading /\ ~crashed)

\* a request is in flight in the mode that is not the initial one, and the
\* button is disabled
C21_Witness ==
  /\ Len(calls) = 1 /\ calls[1].pc = "body" /\ loading
  /\ variant = "jsx" /\ calls[1].url = "/api/fetch"

----------------------------------------------------------------------------
(* fetchListings called while a call is pending: the calls are made by the *)
(* program (a test, a second handler), not through the disabled button.    *)

\* how many calls of fetchListings are pending at most
MaxInFlight == 2

\* the responses of the concurrent calls: listings, an application error, a page
RaceResponses ==
  { r \in Responses :
      /\ r.bodyError = Null
      /\ \/ r.status = 200 /\ r.contentType = ContentTypeJson
            /\ \E q \in Payloads : Len(q) = 1 /\ r.body = JsonBody(JsonObject(Undefined, Arr(q)))
         \/ r.status = 500 /\ r.contentType = ContentTypeHtml /\ r.body = TextBody(HtmlPage) }

\* fetchListings() is called, whether or not a call is pending
Invoke ==
  /\ ~crashed
  /\ Len(calls) < MaxInFlight
  /\ fetchListings

RaceNext ==
  \/ \E checked \in BOOLEAN : SetUseMock(checked)
  \/ Invoke
  \/ \E i \in 1..Len(calls) : TimerFires(i)
  \/ \E i \in 1..Len(calls), message \in NetworkErrors : FetchRejects(i, message)
  \/ \E i \in 1..Len(calls), resp \in RaceResponses : FetchResolves(i, resp)
  \/ \E i \in 1..Len(calls) : BodyArrives(i)

SpecRace == Init /\ [][RaceNext]_vars

----------------------------------------------------------------------------
(* C22: when calls of fetchListings overlap, none is cancelled and the     *)
(* state after all of them have completed is the state the call that       *)
(* completed last writes: its listings without an error when it succeeded, *)
(* no listings and its error message when it failed.  Stated for App.jsx   *)
(* and part_001.                                                           *)

\* what the pending call i yields when it completes now by its own means
OutcomeOf(i) ==
  CASE calls[i].pc = "timer" -> Returned(Arr(MOCK_LISTINGS))
    [] calls[i].pc = "body" -> tryBodyOf[variant][calls[i].resp]
    [] OTHER -> Thrown(Undefined)

C22_LastCompletionWins ==
  [][(variant \in {"jsx", "mock"} /\ Len(calls) = 1 /\ calls' = <<>>) =>
       IF OutcomeOf(1).threw
       THEN listings' = Arr(<<>>) /\ error' # Null
       ELSE listings' = OutcomeOf(1).listings /\ error' = Null]_vars

----------------------------------------------------------------------------
(* The arrays of one render, by name: Array.prototype.map and filter write *)
(* a new array, [...arr] copies, Array.prototype.sort reorders the array   *)
(* it is called on.                                                        *)

ArrayNames == {"listings", "normalized", "arr", "copy"}

\* dst = heap[src].map(normalizeOne)
ArrayMap(heap, src, dst) == [heap EXCEPT ![dst] = normalized(heap[src])]
\* dst = heap[src].filter(callback)
ArrayFilter(heap, v, src, dst, thr, reqA) == [heap EXCEPT ![dst] = KeepSeq(v, heap[src], thr, reqA)]
\* dst = [...heap[src]]
ArrayCopy(heap, src, dst) == [heap EXCEPT ![dst] = heap[src]]
\* heap[ref].sort(callback)
ArraySort(heap, v, key, eng, ref) == [heap EXCEPT ![ref] = SortArray(v, key, eng, heap[ref])]

\* a faulty pipeline: the sort is called on the array the filter reads
sortReceiverSource(v) == IF v = "ts" THEN "listings" ELSE "normalized"

\* the array the sort is called on: the filter's result in App.jsx and
\* part_001, a copy of it in part_000
sortReceiver(v) == IF v = "ts" THEN "copy" ELSE "arr"

\* the arrays after the two useMemo callbacks have run on the listings ls
renderArrays(v, eng, ls, thr0, reqA0, key) ==
  LET h0 == [n \in ArrayNames |-> IF n = "listings" THEN ls ELSE <<>>]
      h1 == IF v = "ts" THEN h0 ELSE ArrayMap(h0, "listings", "normalized")
      h2 == ArrayFilter(h1, v, IF v = "ts" THEN "listings" ELSE "normalized", "arr",
                        thresholdUsed(v, thr0), reqA0)
      h3 == IF v = "ts" THEN ArrayCopy(h2, "arr", "copy") ELSE h2
  IN  ArraySort(h3, v, key, eng, sortReceiver(v))

----------------------------------------------------------------------------
(* C23: computing the output of the filter and the sort leaves the raw     *)
(* listings and the normalized listings as they were, the same records in  *)
(* the same order, for every threshold, require-area flag and sort key:    *)
(* the sort reorders only the array the filter made.                       *)
C23_PipelineLeavesInputs ==
  LET h == renderArrays(variant, engine, listingsOrEmpty.s, threshold, requireArea, sort)
  IN  /\ h["listings"] = listingsOrEmpty.s
      /\ variant # "ts" => h["normalized"] = normalizedNow
      /\ h[sortReceiver(variant)] = filtered

\* the sort has moved a record of an output from which the filter dropped another
C23_Witness ==
  /\ Len(filtered) >= 2 /\ Len(filtered) < Len(listings.s)
  /\ filtered # KeepSeq(variant, IF variant = "ts" THEN listings.s ELSE normalizedNow,
                        thresholdUsed(variant, threshold), requireArea)

----------------------------------------------------------------------------
(* C24: when a response with a 2xx status and a JSON object as its body    *)
(* has been read, the listing collection is the body's listings member if  *)
(* that is an array and empty otherwise, the error is still null, and the  *)
(* render that follows does not throw.                                     *)

\* call i ends in this step with a 2xx response whose body is a JSON object
EndsWithJsonObject(i) ==
  /\ Ends(i) /\ calls[i].pc = "body"
  /\ calls[i].resp.bodyError = Null
  /\ Ok(calls[i].resp)
  /\ calls[i].resp.contentType = ContentTypeJson
  /\ calls[i].resp.body.parsed.t = "object"

\* what the claim says of the step that ends call i
ListingsFieldOrEmpty(i) ==
  LET field == calls[i].resp.body.parsed.listings
  IN  /\ listings' = IF IsArray(field) THEN field ELSE Arr(<<>>)
      /\ error' = Null
      /\ ~crashed'

C24_ListingsFieldOrEmpty ==
  [][\A i \in 1..Len(calls) : EndsWithJsonObject(i) => ListingsFieldOrEmpty(i)]_vars

\* the same in App.jsx and part_001 alone
ListingsFieldOrEmptyJsx ==
  [][\A i \in 1..Len(calls) :
       (variant \in {"jsx", "mock"} /\ EndsWithJsonObject(i)) => ListingsFieldOrEmpty(i)]_vars

----------------------------------------------------------------------------
(* C25: in App.jsx and part_001, a response that declares JSON and whose   *)
(* body is the JSON text of null, false, 0 or the empty string ends the    *)
(* fetch as a body that is not JSON does, whatever the status: the listing *)
(* collection is empty and the error is the "non-JSON body" message with   *)
(* the status and the body's text.                                         *)
FalsyJson == {"null", "false", "zero", "empty"}

C25_FalsyJsonIsNonJson ==
  [][\A i \in 1..Len(calls) :
       (/\ Ends(i) /\ calls[i].pc = "body"
        /\ variant \in {"jsx", "mock"}
        /\ calls[i].resp.bodyError = Null
        /\ calls[i].resp.contentType = ContentTypeJson
        /\ calls[i].resp.body.parsed.t \in FalsyJson) =>
         LET resp == calls[i].resp
         IN  /\ listings' = Arr(<<>>)
             /\ error' = Str(TextApiReturned \o NatText(resp.status) \o <<" ">>
                             \o resp.statusText \o TextWithNonJsonBody \o resp.body.text)]_vars

\* a response with status 200 and the body "" has been reported
C25_Witness ==
  /\ calls = <<>> /\ listings = Arr(<<>>)
  /\ error = Str(TextApiReturned \o <<"2", "0", "0", " ", "O", "K">>
                   \o TextWithNonJsonBody \o <<"\"", "\"">>)

----------------------------------------------------------------------------
(* C26: in App.jsx and part_001, a raw field that is a string of nothing   *)
(* but pound signs, commas and white space ("", " ", "£", ",") is          *)
(* normalized to the finite number 0, not to the sentinel; a listing whose *)
(* raw undervaluePct is such a string has uvN = 0 and is in the output     *)
(* whenever the threshold is at most 0 and require-area is off.            *)

\* v is a string that holds only characters toNumber removes
BlankString(v) ==
  v.t = "string" /\ \A i \in 1..Len(v.s) : v.s[i] \in {"£", ",", " ", "\t", "\n"}

C26_BlankStringIsZero ==
  variant \in {"jsx", "mock"} =>
    \A i \in 1..Len(listingsOrEmpty.s) :
      LET l == listingsOrEmpty.s[i]
          x == normalizedNow[i]
      IN  /\ BlankString(l.price) => x.priceN = Num(0)
          /\ BlankString(l.sqm) => x.sqmN = Num(0)
          /\ BlankString(l.pricePerSqm) => x.ppsmN = Num(0)
          /\ BlankString(l.undervaluePct) => x.uvN = Num(0)
          /\ (/\ BlankString(l.undervaluePct)
              /\ threshold.t = "number" /\ threshold.n <= 0
              /\ ~requireArea)
               => \E j \in 1..Len(filtered) : filtered[j] = x

\* the listing with the empty undervaluePct is in the output at threshold 0
C26_Witness ==
  /\ variant \in {"jsx", "mock"} /\ listings = Arr(BlankProbe)
  /\ threshold = Num(0) /\ ~requireArea
  /\ \E j \in 1..Len(filtered) : filtered[j].title = "N" /\ filtered[j].uvN = Num(0)

----------------------------------------------------------------------------
(* C27: the start of a fetch sets error to null and loading to true and    *)
(* leaves the listing collection, and with it the filtered output, as it   *)
(* was; the listing collection changes only in a step that completes a     *)
(* fetch, so that the results of the fetch before stay while a request is  *)
(* in flight.  The filtered output is a function of the listings, the     *)
(* threshold, the require-area flag and the sort key (and of the variant   *)
(* and the host's sort), which is how the formula states that it stays.    *)
C27_StartKeepsListings ==
  [][/\ ClickFetch =>
          /\ error' = Null /\ loading'
          /\ listings' = listings
          /\ UNCHANGED <<variant, engine, threshold, requireArea, sort>>
     /\ listings' # listings => \E i \in 1..Len(calls) : Ends(i)]_vars

\* a request is in flight, and the page shows the two listings of an earlier
\* fetch
C27_Witness ==
  /\ loading /\ Len(calls) = 1 /\ calls[1].pc = "body"
  /\ error = Null /\ Len(listings.s) = 2 /\ filtered # <<>>

----------------------------------------------------------------------------
(* C28: in the content planner, a click on Delete for the item with the id *)
(* t leaves exactly the items whose id is not t and whose parentId is not  *)
(* t, each as it was and in the order they had: a video goes together with *)
(* its scripts, thumbnails and headlines, and nothing else changes.        *)

\* the positions of list that removeItem(t) is to keep
KeptPositions(list, t) ==
  { i \in 1..Len(list.s) : Get(list.s[i], KeyId) # t /\ Get(list.s[i], KeyParentId) # t }

\* after is before without the items at the other positions
IsRestriction(before, after, kept) ==
  /\ Len(after.s) = Cardinality(kept)
  /\ \A j \in 1..Len(after.s) :
       after.s[j] = before.s[CHOOSE i \in kept : Cardinality({k \in kept : k < i}) = j - 1]

----------------------------------------------------------------------------
(* The content planner without imports, started on an empty storage.       *)

CrudInit == PlannerInit /\ storage = Null

CrudNext ==
  \/ Load
  \/ createVideo
  \/ ClickAdd
  \/ ClickEdit
  \/ EditTitle
  \/ CancelEdit
  \/ saveEdit
  \/ ClickDelete
  \/ ToastExpires
  \/ Tick

SpecCrud == CrudInit /\ [][CrudNext]_vars

----------------------------------------------------------------------------
(* C29: in the content planner, with videos created, children created on   *)
(* displayed videos, edits saved and items deleted, from the empty         *)
(* collection and without imports, every item whose parentId is not null   *)
(* has the id of a video of the collection as its parentId.                *)
C29_NoOrphan ==
  \A k \in Range(items.s) :
    Get(k, KeyParentId) # Null =>
      \E v \in Range(items.s) :
        Get(v, KeyType) = Str(TextVideoType) /\ Get(v, KeyId) = Get(k, KeyParentId)

\* a child whose edit has been saved stands beside its video
C29_Witness ==
  /\ page = "mounted" /\ editingItem = Null
  /\ \E k \in Range(items.s) :
       /\ Get(k, KeyParentId) # Null
       /\ Get(k, KeyTitle) \in { Str(t) : t \in EditedTitles }

----------------------------------------------------------------------------
(* C30: in the content planner, a click on Save replaces the item that has *)
(* the id of the edited item by the edited item with updatedAt set to the  *)
(* time of the click, and leaves every other item, the number of items and *)
(* their order as they were; when no item has that id the collection stays *)
(* as it was.                                                              *)

\* a is the edited item e with updatedAt set to now
IsSavedCopy(a, e, now) ==
  /\ Get(a, KeyUpdatedAt) = now
  /\ \A key \in {KeyId, KeyType, KeyParentId, KeyTitle, KeyContent} : Get(a, key) = Get(e, key)
  /\ { a.s[j].key : j \in 1..Len(a.s) } = { e.s[j].key : j \in 1..Len(e.s) } \cup {KeyUpdatedAt}

C30_SaveReplacesOne ==
  [][saveEdit =>
       /\ Len(items'.s) = Len(items.s)
       /\ \A i \in 1..Len(items.s) :
            IF Get(items.s[i], KeyId) = Get(editingItem, KeyId)
            THEN IsSavedCopy(items'.s[i], editingItem, nowISO)
            ELSE items'.s[i] = items.s[i]]_vars

\* Save has been clicked for an item that an import had replaced meanwhile:
\* no item of the imported collection has been touched
C30_Witness ==
  /\ page = "mounted" /\ toast = TextSaved /\ Len(items.s) = 2
  /\ \A k \in Range(items.s) : Get(k, KeyUpdatedAt) = Undefined

====
